---- MODULE Spec2Model ----
(***************************************************************************)
(* The background process (service worker) of helia-ia-frontend: the      *)
(* lazily constructed Helia handle (initHelia / doInitialization), the    *)
(* SHALLOW_RETRIEVAL message handler with its root listing and its        *)
(* background subdirectory processing, and the /ipfs-sw/ fetch handler;   *)
(* and the page-side ServiceWorkerManager with its localStorage cache.    *)
(*                                                                         *)
(* One JavaScript job (a synchronous run between two suspension points)   *)
(* is one action.  Objects are named by the number of the call that made  *)
(* them, 0 is null.                                                        *)
(***************************************************************************)
EXTENDS Integers, Sequences, FiniteSets, TLC

\* ------------------------------------------------------------- bounds
MaxInits == 2        \* doInitialization calls in one run
MaxListings == 1     \* SHALLOW_RETRIEVAL messages in one run
MaxFetches == 2      \* fetch events in one run
MaxEntries == 2      \* entries of a root directory
MaxLongEntries == 101 \* entries of a root directory of files only
MaxSubEntries == 1   \* entries of a subdirectory
MaxCalls == 2        \* getItemListing calls in one run
MaxOthers == 1       \* messages of each type from other senders than a manager's requests
MaxTicks == 1        \* steps of the clock in one run

\* ---------------------------------------------------- program constants
BadRequestStatus == 400
ServerErrorStatus == 500
RetentionDays == 30  \* 30 * 24 * 60 * 60 * 1000 ms
CutoffDays == 7      \* 7 * 24 * 60 * 60 * 1000 ms

VARIABLES
  helia,                  \* let helia: Helia | null
  fs,                     \* let fs: UnixFS | null
  verifiedFetch,          \* let verifiedFetch: any
  isInitializing,         \* let isInitializing
  initializationPromise,  \* let initializationPromise (0 or the number of the doInitialization call)
  nInits,                 \* doInitialization calls made so far
  doInit,                 \* per doInitialization call: position, createHeliaHTTP, promise value
  nTasks,                 \* activations made so far
  task,                   \* per activation: kind, position, inputs
  acq,                    \* per activation: its initHelia() call
  walk,                   \* per activation: listing state
  posted,                 \* per traversal: the messages posted to clients, in order
  resp,                   \* per fetch event: the Response given to respondWith
  inbox,                  \* messages posted to the worker, not yet dispatched
  messageId,              \* per page: this.messageId
  pendingMessages,        \* per page: this.pendingMessages
  localStorage,           \* the origin's localStorage, by the CID of the cache key
  now,                    \* Date.now(), in days
  nTicks,                 \* steps of the clock made so far
  nCalls,                 \* getItemListing calls made so far
  call,                   \* per getItemListing call: position, inputs, results
  cursor,                 \* per page and traversal: messages of its log handled so far
  listed,                 \* per CID: the listing was obtained, and nothing removed since
  connected,              \* the window clients the worker knows (self.clients.matchAll())
  backgroundProgressCallbacks, \* per page: this.backgroundProgressCallbacks, in insertion order
  undelivered,            \* per page: the progress events handled that a subscriber did not get
  results,                \* per page: the results state of its Home component
  returned,               \* what the last getCachedDirectoryListing call returned, and for which
                          \* CID; what the last clearDirectoryCache call returned
  foreign                 \* the keys of the origin's localStorage outside the directory cache

swVars == <<helia, fs, verifiedFetch, isInitializing, initializationPromise, nInits, doInit>>
vars == <<helia, fs, verifiedFetch, isInitializing, initializationPromise, nInits, doInit,
          nTasks, task, acq, walk, posted, resp, inbox,
          messageId, pendingMessages, localStorage, now, nTicks, nCalls, call, cursor,
          listed, connected, backgroundProgressCallbacks, undelivered, results, returned, foreign>>
\* The clients of the worker and the subscribers and components of the pages.
extVars == <<connected, backgroundProgressCallbacks, undelivered, results, returned, foreign>>
mgrVars == <<messageId, pendingMessages, localStorage, now, nTicks, nCalls, call, cursor,
             listed, extVars>>
pageVars == <<inbox, mgrVars>>

Inits == 1..MaxInits
\* Activations: the auto-initialisation, each SHALLOW_RETRIEVAL message with its
\* background run, each fetch, each EXTRACT_PAIRS message.
Tasks == 1..(1 + 2 * MaxListings + MaxFetches + MaxCalls + 3 * MaxOthers)
Calls == 1..MaxCalls

\* ------------------------------------------------------------- values
NoHandle == [helia |-> 0, fs |-> 0, verifiedFetch |-> 0]
NoError == [init |-> 0, cause |-> "none"]
IdleInit == [pc |-> "idle", create |-> "none", cause |-> "none", value |-> NoHandle,
             resumed |-> FALSE]
NoAcq == [st |-> "none", role |-> "none", init |-> 0, h |-> NoHandle, err |-> NoError,
          during |-> 0, afterOk |-> FALSE]

\* The promise returned by doInitialization call n.
Pending(n) == doInit[n].pc \in {"open", "race", "vfetch"}
Fulfilled(n) == doInit[n].pc = "returned"
Rejected(n) == doInit[n].pc = "threw"

\* The doInitialization call whose promise is pending, 0 if none (history, for the claims).
InFlight == IF \E n \in Inits : Pending(n) THEN CHOOSE n \in Inits : Pending(n) ELSE 0

\* new Error(`Helia HTTP initialization failed: ${message}`) of call n
InitError(n) == [init |-> n, cause |-> doInit[n].cause]

\* A continuation of a settled `await` is queued (a microtask): the event loop runs
\* these before it dispatches the next event, timer or I/O completion.
MicrotaskQueued ==
  \E t \in 1..nTasks :
     \/ acq[t].st = "wait" /\ ~Pending(acq[t].init)
     \/ task[t].pc = "acquire" /\ acq[t].st \in {"ok", "err"}
     \/ task[t].pc = "respond"

\* --------------------------------------------------------- initHelia
\* initHelia without the fast path
NeverInitialized == FALSE

\* if (helia && fs)
AlreadyInitialized == helia # 0 /\ fs # 0

\* initHelia without the in-progress check
InProgressIgnored == FALSE

\* if (isInitializing && initializationPromise)
InProgress == isInitializing /\ initializationPromise # 0

\* The synchronous part of initHelia() called by activation t: the fast path returns
\* the three module variables as they are now; otherwise the caller awaits the
\* promise in flight, or starts doInitialization (which runs up to its first await,
\* blockstore.open()) and awaits that.
InitHelia(t) ==
  LET hist == [during |-> InFlight, afterOk |-> \E n \in Inits : Fulfilled(n)] IN
  IF AlreadyInitialized THEN
    /\ acq' = [acq EXCEPT ![t] = [st |-> "ok", role |-> "fast", init |-> 0,
                 h |-> [helia |-> helia, fs |-> fs, verifiedFetch |-> verifiedFetch],
                 err |-> NoError, during |-> hist.during, afterOk |-> hist.afterOk]]
    /\ UNCHANGED <<isInitializing, initializationPromise, nInits, doInit>>
  ELSE IF InProgress THEN
    /\ acq' = [acq EXCEPT ![t] = [st |-> "wait", role |-> "waiter",
                 init |-> initializationPromise, h |-> NoHandle, err |-> NoError,
                 during |-> hist.during, afterOk |-> hist.afterOk]]
    /\ UNCHANGED <<isInitializing, initializationPromise, nInits, doInit>>
  ELSE
    /\ nInits < MaxInits
    /\ isInitializing' = TRUE
    /\ nInits' = nInits + 1
    /\ initializationPromise' = nInits + 1
    /\ doInit' = [doInit EXCEPT ![nInits + 1] = [IdleInit EXCEPT !.pc = "open"]]
    /\ acq' = [acq EXCEPT ![t] = [st |-> "wait", role |-> "initiator", init |-> nInits + 1,
                 h |-> NoHandle, err |-> NoError,
                 during |-> nInits + 1, afterOk |-> hist.afterOk]]

\* What `await initializationPromise` delivers to activation t once call n has settled.
Delivered(t, n) ==
  IF Fulfilled(n)
  THEN [acq[t] EXCEPT !.st = "ok", !.h = doInit[n].value]
  ELSE [acq[t] EXCEPT !.st = "err", !.err = InitError(n)]

\* The caller that started call n resumes: try { result = await ...; isInitializing = false }
\* catch { isInitializing = false; initializationPromise = null; throw }
InitiatorResume(t) ==
  /\ t <= nTasks
  /\ acq[t].st = "wait" /\ acq[t].role = "initiator"
  /\ ~Pending(acq[t].init)
  /\ isInitializing' = FALSE
  /\ initializationPromise' = IF Rejected(acq[t].init) THEN 0 ELSE initializationPromise
  /\ acq' = [acq EXCEPT ![t] = Delivered(t, acq[t].init)]
  /\ doInit' = [doInit EXCEPT ![acq[t].init].resumed = TRUE]
  /\ UNCHANGED <<helia, fs, verifiedFetch, nInits, nTasks, task, walk, posted, resp, pageVars>>

\* A caller that found the promise in flight resumes (`return await initializationPromise`);
\* its reaction was registered after the initiator's, so it runs after it.
WaiterResume(t) ==
  /\ t <= nTasks
  /\ acq[t].st = "wait" /\ acq[t].role = "waiter"
  /\ ~Pending(acq[t].init) /\ doInit[acq[t].init].resumed
  /\ acq' = [acq EXCEPT ![t] = Delivered(t, acq[t].init)]
  /\ UNCHANGED <<swVars, nTasks, task, walk, posted, resp, pageVars>>

\* ---------------------------------------------------- doInitialization
\* A catch block that rethrows without clearing the module variables
CatchKeepsReferences(n, why) ==
  /\ UNCHANGED <<helia, fs, verifiedFetch>>
  /\ doInit' = [doInit EXCEPT ![n].pc = "threw", ![n].cause = why,
                              ![n].create = IF why = "create" THEN "rejected" ELSE @]

\* catch (error) { helia = null; fs = null; verifiedFetch = null; throw new Error(...) }
Catch(n, why) ==
  /\ helia' = 0 /\ fs' = 0 /\ verifiedFetch' = 0
  /\ doInit' = [doInit EXCEPT ![n].pc = "threw", ![n].cause = why,
                              ![n].create = IF why = "create" THEN "rejected" ELSE @]

\* await blockstore.open() resolves; createHeliaHTTP(config) is called, the 8 s timer is
\* armed and the call awaits Promise.race([heliaPromise, timeoutPromise]).
BlockstoreOpened(n) ==
  /\ ~MicrotaskQueued
  /\ doInit[n].pc = "open"
  /\ doInit' = [doInit EXCEPT ![n].pc = "race", ![n].create = "running"]
  /\ UNCHANGED <<helia, fs, verifiedFetch, isInitializing, initializationPromise, nInits,
                 nTasks, task, acq, walk, posted, resp, pageVars>>

\* new IDBBlockstore(...) or blockstore.open() fails
BlockstoreOpenFails(n) ==
  /\ ~MicrotaskQueued
  /\ doInit[n].pc = "open"
  /\ Catch(n, "open")
  /\ UNCHANGED <<isInitializing, initializationPromise, nInits,
                 nTasks, task, acq, walk, posted, resp, pageVars>>

\* A race whose loser is still read after the race has settled
RaceNeverSettles(n) == TRUE

\* `await Promise.race([heliaPromise, timeoutPromise])` of call n is still pending
RaceAwaited(n) == doInit[n].pc = "race"

\* createHeliaHTTP resolves: isResolved = true, the timer is cleared.  If the race is
\* still awaited it yields the client: helia = result; fs = unixfs(helia); then
\* createVerifiedFetch(helia) is awaited.  After a timeout nobody reads the result.
CreateHeliaResolves(n) ==
  /\ ~MicrotaskQueued
  /\ doInit[n].create = "running"
  /\ IF RaceAwaited(n)
     THEN /\ helia' = n
          /\ fs' = n
          /\ doInit' = [doInit EXCEPT ![n].pc = "vfetch", ![n].create = "resolved"]
     ELSE /\ doInit' = [doInit EXCEPT ![n].create = "resolved"]
          /\ UNCHANGED <<helia, fs>>
  /\ UNCHANGED <<verifiedFetch, isInitializing, initializationPromise, nInits,
                 nTasks, task, acq, walk, posted, resp, pageVars>>

\* createHeliaHTTP rejects: isResolved = true, the timer is cleared; the race, if still
\* awaited, rejects with the error.
CreateHeliaRejects(n) ==
  /\ ~MicrotaskQueued
  /\ doInit[n].create = "running"
  /\ IF doInit[n].pc = "race"
     THEN Catch(n, "create")
     ELSE /\ doInit' = [doInit EXCEPT ![n].create = "rejected"]
          /\ UNCHANGED <<helia, fs, verifiedFetch>>
  /\ UNCHANGED <<isInitializing, initializationPromise, nInits,
                 nTasks, task, acq, walk, posted, resp, pageVars>>

\* setTimeout(..., 8000) fires with !isResolved: the race rejects; createHeliaHTTP
\* keeps running.
TimeoutFires(n) ==
  /\ ~MicrotaskQueued
  /\ doInit[n].pc = "race" /\ doInit[n].create = "running"
  /\ Catch(n, "timeout")
  /\ UNCHANGED <<isInitializing, initializationPromise, nInits,
                 nTasks, task, acq, walk, posted, resp, pageVars>>

\* verifiedFetch = await createVerifiedFetch(helia); return { helia, fs, verifiedFetch }
VerifiedFetchCreated(n) ==
  /\ ~MicrotaskQueued
  /\ doInit[n].pc = "vfetch"
  /\ verifiedFetch' = n
  /\ doInit' = [doInit EXCEPT ![n].pc = "returned",
                  ![n].value = [helia |-> helia, fs |-> fs, verifiedFetch |-> n]]
  /\ UNCHANGED <<helia, fs, isInitializing, initializationPromise, nInits,
                 nTasks, task, acq, walk, posted, resp, pageVars>>

\* createVerifiedFetch rejects
VerifiedFetchFails(n) ==
  /\ ~MicrotaskQueued
  /\ doInit[n].pc = "vfetch"
  /\ Catch(n, "vfetch")
  /\ UNCHANGED <<isInitializing, initializationPromise, nInits,
                 nTasks, task, acq, walk, posted, resp, pageVars>>

\* ------------------------------------------------------------- inputs
NoSource == "none"                \* event.source absent
Clients == {"page1"}              \* Client objects of the pages
Windows == {"page1", "page2"}     \* the windows that the worker can come to control
Sources == Clients \cup {NoSource}
Cids == {"bafyA", "notacid"}      \* payload.cid strings
\* CID.parse(cidString) succeeds
CidParses(c) == c \in {"bafyA", "bafyB"}
EntryTypes == {"file", "directory"}

NoUrl == [inScope |-> FALSE, segs |-> <<>>, filename |-> "", size |-> <<>>]
NoTask == [kind |-> "none", pc |-> "none", src |-> NoSource, id |-> 0, cid |-> "", parent |-> 0,
           url |-> NoUrl, type |-> ""]
NoWalk == [count |-> 0, files |-> <<>>, subdirs |-> <<>>, sidx |-> 0, outcomes |-> <<>>,
           error |-> <<>>]
NoResp == [st |-> "none", status |-> 0, body |-> <<>>, vfCalled |-> FALSE, thrown |-> <<>>,
           contentType |-> "", statusText |-> "", headers |-> <<>>, bytes |-> 0,
           upstream |-> [status |-> 0, statusText |-> "", headers |-> <<>>]]

\* client.postMessage({ type: 'SW_PROGRESS_UPDATE', data }) with a ProgressMessage data.
Progress(ty, stage, n, sub, files, err, to) ==
  [type |-> "SW_PROGRESS_UPDATE", to |-> to, id |-> 0, success |-> FALSE,
   data |-> [type |-> ty, stage |-> stage, entriesFound |-> n, subdirectory |-> sub,
             files |-> files, error |-> err],
   error |-> <<>>, known |-> connected]

\* A failure of a subdirectory listing that is posted as a failure response
SendFailureAsResponse(log, clientId, ty, stage, n, sub, files, err) ==
  IF ty = "SUBDIRECTORY_ERROR"
  THEN Append(log, [type |-> "SHALLOW_RETRIEVAL_RESPONSE",
                    to |-> IF clientId # NoSource THEN clientId ELSE "all",
                    id |-> 0, success |-> FALSE, data |-> <<>>, error |-> err,
                    known |-> connected])
  ELSE IF clientId # NoSource
  THEN Append(log, Progress(ty, stage, n, sub, files, err, clientId))
  ELSE log

\* sendProgressMessage(clientId, data) from the callers' `if (clientId)`: posts to the
\* client, nothing when there is none.
SendProgress(log, clientId, ty, stage, n, sub, files, err) ==
  IF clientId # NoSource
  THEN Append(log, Progress(ty, stage, n, sub, files, err, clientId))
  ELSE log

\* (error as Error).message of a failed initHelia()
Message(e) == <<"Helia HTTP initialization failed", e.init, e.cause>>

\* ----------------------------------------------- message event listener
Started(k) == Cardinality({t \in 1..nTasks : task[t].kind = k})

\* A SHALLOW_RETRIEVAL request is posted to the worker by a script other than a
\* ServiceWorkerManager, from a page or from a sender that is no client; it numbers its
\* requests -1, -2, ...
PostShallowRetrieval(s, c) ==
  /\ s \in connected \cup {NoSource}
  /\ Cardinality({m \in inbox : m.type = "SHALLOW_RETRIEVAL"}) + Started("shallow")
       < MaxListings
  /\ inbox' = inbox \cup
       {[src |-> s, type |-> "SHALLOW_RETRIEVAL", cid |-> c, files |-> <<>>,
         id |-> 0 - (1 + Cardinality({m \in inbox : m.src = s})
                  + Cardinality({t \in 1..nTasks : task[t].kind = "shallow" /\ task[t].src = s}))]}
  /\ UNCHANGED <<swVars, nTasks, task, acq, walk, posted, resp, mgrVars>>

\* A window comes under the worker's control (clients.claim(), or a page is loaded in
\* its scope): from now on self.clients.matchAll() has it.
Connect(w) ==
  /\ w \notin connected
  /\ connected' = connected \cup {w}
  /\ UNCHANGED <<swVars, nTasks, task, acq, walk, posted, resp, inbox, messageId,
                 pendingMessages, localStorage, now, nTicks, nCalls, call, cursor, listed,
                 backgroundProgressCallbacks, undelivered, results, returned, foreign>>

\* The message event of a SHALLOW_RETRIEVAL request m: performShallowRetrieval(payload.cid,
\* source) runs up to `await initHelia()`.
OnShallowRetrieval(m) ==
  /\ ~MicrotaskQueued
  /\ m \in inbox /\ m.type = "SHALLOW_RETRIEVAL"
  /\ Started("shallow") < MaxListings
  /\ inbox' = inbox \ {m}
  /\ nTasks' = nTasks + 1
  /\ task' = [task EXCEPT ![nTasks + 1] = [NoTask EXCEPT !.kind = "shallow", !.pc = "acquire",
                 !.src = m.src, !.id = m.id, !.cid = m.cid, !.type = m.type]]
  /\ InitHelia(nTasks + 1)
  /\ UNCHANGED <<helia, fs, verifiedFetch, walk, posted, resp, mgrVars>>

\* performShallowRetrieval's catch: the error progress message, then the throw that
\* the listener turns into the failure response.
ShallowCatch(t, msg) ==
  /\ posted' = [posted EXCEPT ![t] = SendProgress(@, task[t].src,
                   "DIRECTORY_LISTING_PROGRESS", "error", 0, <<>>, <<>>, msg)]
  /\ task' = [task EXCEPT ![t].pc = "respond"]
  /\ walk' = [walk EXCEPT ![t].error = msg]

\* initHelia() has settled: CID.parse, the 'starting' message, and fs.ls(cid) begins.
ShallowBegin(t) ==
  /\ t <= nTasks /\ task[t].kind = "shallow" /\ task[t].pc = "acquire"
  /\ acq[t].st \in {"ok", "err"}
  /\ IF acq[t].st = "err" THEN ShallowCatch(t, Message(acq[t].err))
     ELSE IF ~CidParses(task[t].cid) THEN ShallowCatch(t, <<"cid parse error">>)
     ELSE /\ posted' = [posted EXCEPT ![t] = SendProgress(@, task[t].src,
                          "DIRECTORY_LISTING_PROGRESS", "starting", 0, <<>>, <<>>, <<>>)]
          /\ task' = [task EXCEPT ![t].pc = "ls"]
          /\ UNCHANGED walk
  /\ UNCHANGED <<swVars, nTasks, acq, resp, pageVars>>

\* A test that leaves the tenth entry out
ReportedBelowTen(entryCount) == entryCount % 50 = 0 \/ entryCount < 10

\* if (clientId && (entryCount % 50 === 0 || entryCount <= 10))
ListingReported(entryCount) == entryCount % 50 = 0 \/ entryCount <= 10

\* fs.ls(cid) yields the next entry, of type ty, of a directory of at most max entries.
\* (The entries of a directory have distinct names: the n-th is named <<n>>.)
ShallowNextUpTo(t, ty, max) ==
  /\ ~MicrotaskQueued
  /\ t <= nTasks /\ task[t].kind = "shallow" /\ task[t].pc = "ls"
  /\ walk[t].count < max
  /\ LET n == walk[t].count + 1 IN
     /\ walk' = [walk EXCEPT ![t].count = n,
                   ![t].files = Append(@, [name |-> <<n>>, type |-> ty]),
                   ![t].subdirs = IF ty = "directory" THEN Append(@, <<n>>) ELSE @]
     /\ posted' = [posted EXCEPT ![t] =
                     IF ListingReported(n)
                     THEN SendProgress(@, task[t].src, "DIRECTORY_LISTING_PROGRESS",
                                       "listing", n, <<>>, <<>>, <<>>)
                     ELSE @]
  /\ UNCHANGED <<swVars, nTasks, task, acq, resp, pageVars>>

ShallowNext(t, ty) == ShallowNextUpTo(t, ty, MaxEntries)

\* fs.ls(cid) throws in the middle of the iteration.
ShallowLsThrows(t) ==
  /\ ~MicrotaskQueued
  /\ t <= nTasks /\ task[t].kind = "shallow" /\ task[t].pc = "ls"
  /\ ShallowCatch(t, <<"ls failed">>)
  /\ UNCHANGED <<swVars, nTasks, acq, resp, pageVars>>

\* A completion message that is left to a later turn of the event loop
CompleteDeferred(log, clientId, n) == log

\* if (clientId) await sendProgressMessage(clientId, { ..., stage: 'complete',
\* entriesFound: files.length }): clientId is the Client object, so the message is
\* posted in the call, before anything is awaited.
CompleteSent(log, clientId, n) ==
  SendProgress(log, clientId, "DIRECTORY_LISTING_PROGRESS", "complete", n, <<>>, <<>>, <<>>)

\* The root directory is exhausted: processSubdirectoriesInBackground is called without
\* await (it runs up to its `await initHelia()`), then the 'complete' message is posted.
ShallowLsDone(t) ==
  /\ ~MicrotaskQueued
  /\ t <= nTasks /\ task[t].kind = "shallow" /\ task[t].pc = "ls"
  /\ IF walk[t].subdirs # <<>>
     THEN /\ nTasks' = nTasks + 1
          /\ task' = [task EXCEPT ![t].pc = "respond",
                        ![nTasks + 1] = [NoTask EXCEPT !.kind = "bg", !.pc = "acquire",
                                                       !.src = task[t].src, !.parent = t]]
          /\ walk' = [walk EXCEPT ![nTasks + 1].subdirs = walk[t].subdirs,
                                  ![nTasks + 1].sidx = 1]
          /\ InitHelia(nTasks + 1)
     ELSE /\ task' = [task EXCEPT ![t].pc = "respond"]
          /\ UNCHANGED <<nTasks, walk, acq, isInitializing, initializationPromise,
                         nInits, doInit>>
  /\ posted' = [posted EXCEPT ![t] = CompleteSent(@, task[t].src, Len(walk[t].files))]
  /\ UNCHANGED <<helia, fs, verifiedFetch, resp, pageVars>>

\* A listing that is awaited together with its background processing
ReturnedWithBackground(t) ==
  /\ task[t].pc = "respond"
  /\ \A b \in 1..nTasks :
        (task[b].kind = "bg" /\ task[b].parent = t) => task[b].pc \in {"done", "aborted"}

\* `await performShallowRetrieval(payload.cid, source)` of activation t has settled: the
\* function has returned the root files or thrown; processSubdirectoriesInBackground was
\* called without await.
Returned(t) == task[t].pc = "respond"

\* A listing that answers with what it has listed, whether or not it has failed
AnsweredAnyway(t) == TRUE

\* const result = { ..., success: true, data: files } after the awaited
\* performShallowRetrieval has returned; the listener's catch answers { success: false,
\* error } when it has thrown.
Succeeded(t) == walk[t].error = <<>>

\* The listener posts the response { type, id, success, data | error }:
\* source.postMessage(result), or the broadcast fallback sendMessageToClient(result) when
\* the event has no source.
ShallowRespond(t) ==
  /\ t <= nTasks /\ task[t].kind = "shallow" /\ Returned(t)
  /\ task' = [task EXCEPT ![t].pc = "done"]
  /\ posted' = [posted EXCEPT ![t] = Append(@,
       [type |-> "SHALLOW_RETRIEVAL_RESPONSE",
        to |-> IF task[t].src # NoSource THEN task[t].src ELSE "all",
        id |-> task[t].id,
        success |-> Succeeded(t),
        data |-> IF Succeeded(t) THEN walk[t].files ELSE <<>>,
        error |-> walk[t].error,
        known |-> connected])]
  /\ UNCHANGED <<swVars, nTasks, acq, walk, resp, pageVars>>

\* ------------------------------------------------ extractMatchingPairs
\* The entries of a directory have distinct names; the n-th is named by <<n>>, and the
\* entries of the subdirectory with path q by q \o <<n>>.  Entry 1 of a directory is
\* item_files.xml, entry 2 is item_meta.xml, the others are named otherwise.
\* file.name.endsWith('_files.xml')
EndsWithFilesXml(name) == name[Len(name)] = 1
\* file.name.endsWith('_meta.xml')
EndsWithMetaXml(name) == name[Len(name)] = 2
\* file.name.replace(/_(?:files|meta)\.xml$/, '')
BaseName(name) == SubSeq(name, 1, Len(name) - 1) \o <<"item">>

\* filesMap.get(base): the last *_files.xml and the last *_meta.xml of that base name
FileSet(files, base) ==
  LET fi == {i \in 1..Len(files) :
               EndsWithFilesXml(files[i].name) /\ BaseName(files[i].name) = base}
      mi == {i \in 1..Len(files) :
               EndsWithMetaXml(files[i].name) /\ BaseName(files[i].name) = base}
      last(S) == CHOOSE i \in S : \A j \in S : j <= i
  IN [hasFiles |-> fi # {}, hasMeta |-> mi # {},
      filesXml |-> IF fi # {} THEN files[last(fi)] ELSE [name |-> <<>>, type |-> "file"],
      metaXml |-> IF mi # {} THEN files[last(mi)] ELSE [name |-> <<>>, type |-> "file"]]

\* The pairs in the order in which the map got its keys, for the base names that have
\* both files.
RECURSIVE PairsFrom(_, _, _)
PairsFrom(files, i, seen) ==
  IF i > Len(files) THEN <<>>
  ELSE LET f == files[i]
           b == BaseName(f.name)
           set == FileSet(files, b)
       IN IF (EndsWithFilesXml(f.name) \/ EndsWithMetaXml(f.name)) /\ b \notin seen
          THEN (IF set.hasFiles /\ set.hasMeta
                THEN <<[baseName |-> b, filesXml |-> set.filesXml, metaXml |-> set.metaXml]>>
                ELSE <<>>)
               \o PairsFrom(files, i + 1, seen \cup {b})
          ELSE PairsFrom(files, i + 1, seen)

extractMatchingPairs(files) == PairsFrom(files, 1, {})

\* The message event of an EXTRACT_PAIRS request m: the pairs are computed and the
\* response is posted in the same job.
OnExtractPairs(m) ==
  /\ ~MicrotaskQueued
  /\ m \in inbox /\ m.type = "EXTRACT_PAIRS"
  /\ inbox' = inbox \ {m}
  /\ nTasks' = nTasks + 1
  /\ task' = [task EXCEPT ![nTasks + 1] = [NoTask EXCEPT !.kind = "pairs", !.pc = "done",
                 !.src = m.src, !.id = m.id, !.type = m.type]]
  /\ posted' = [posted EXCEPT ![nTasks + 1] =
       <<[type |-> "EXTRACT_PAIRS_RESPONSE",
          to |-> IF m.src # NoSource THEN m.src ELSE "all",
          id |-> m.id, success |-> TRUE,
          data |-> extractMatchingPairs(m.files), error |-> <<>>,
          known |-> connected]>>]
  /\ UNCHANGED <<swVars, acq, walk, resp, mgrVars>>

\* The id that the other senders give to their EXTRACT_PAIRS and unknown messages
OtherId == 0 - 100

\* The types of the messages that are no request of the listener's switch: the control
\* message of the manager's sendControlMessage, which has no id, and a type that the
\* listener does not know.
OtherTypes == {"CLAIM_CLIENTS", "PING"}

\* A response that carries the type of its request
EchoType(type) == type

\* type + '_RESPONSE'
ResponseType(type) == type \o "_RESPONSE"

\* A message of another type is posted to the worker, by a page or by a sender that is
\* no client.
PostOther(s, ty) ==
  /\ s \in connected \cup {NoSource}
  /\ Cardinality({m \in inbox : m.type = ty})
       + Started(IF ty = "CLAIM_CLIENTS" THEN "claim" ELSE "unknown") < MaxOthers
  /\ inbox' = inbox \cup
       {[src |-> s, type |-> ty, cid |-> "", files |-> <<>>,
         id |-> IF ty = "CLAIM_CLIENTS" THEN 0 ELSE OtherId]}
  /\ UNCHANGED <<swVars, nTasks, task, acq, walk, posted, resp, mgrVars>>

\* An EXTRACT_PAIRS request with some files is posted to the worker by a script other
\* than a ServiceWorkerManager.
PairFiles == {<<>>, <<[name |-> <<1>>, type |-> "file"], [name |-> <<2>>, type |-> "file"]>>}
PostExtractPairs(s, files) ==
  /\ s \in connected \cup {NoSource}
  /\ Cardinality({m \in inbox : m.type = "EXTRACT_PAIRS"}) + Started("pairs") < MaxOthers
  /\ inbox' = inbox \cup
       {[src |-> s, type |-> "EXTRACT_PAIRS", cid |-> "", files |-> files,
         id |-> OtherId]}
  /\ UNCHANGED <<swVars, nTasks, task, acq, walk, posted, resp, mgrVars>>

\* The ServiceWorkerManager of another page sends a request of its own: EXTRACT_PAIRS
\* for an empty listing, numbered by that page's own counter (const id =
\* ++this.messageId, which starts at 0 in every page); the message event has that
\* page as its source, or none.
OtherPage == "page2"
FromOtherPage(m) == m.src \in {OtherPage, NoSource} /\ m.id > 0
OtherMessageId ==
  Cardinality({m \in inbox : FromOtherPage(m)})
   + Cardinality({t \in 1..nTasks : FromOtherPage(task[t])})
PostFromOtherPage(s) ==
  /\ s \in {OtherPage, NoSource}
  /\ OtherMessageId < MaxOthers
  /\ inbox' = inbox \cup
       {[src |-> s, type |-> "EXTRACT_PAIRS", cid |-> "", files |-> <<>>,
         id |-> OtherMessageId + 1]}
  /\ UNCHANGED <<swVars, nTasks, task, acq, walk, posted, resp, mgrVars>>

\* The message event of a CLAIM_CLIENTS message m: await self.clients.claim() puts the
\* windows that are open in the scope under the worker's control; the listener returns
\* without a response.
OnClaimClients(m, open) ==
  /\ ~MicrotaskQueued
  /\ m \in inbox /\ m.type = "CLAIM_CLIENTS"
  /\ inbox' = inbox \ {m}
  /\ nTasks' = nTasks + 1
  /\ task' = [task EXCEPT ![nTasks + 1] = [NoTask EXCEPT !.kind = "claim", !.pc = "done",
                 !.src = m.src, !.id = m.id, !.type = m.type]]
  /\ connected' = connected \cup open
  /\ UNCHANGED <<swVars, acq, walk, posted, resp, messageId, pendingMessages, localStorage,
                 now, nTicks, nCalls, call, cursor, listed, backgroundProgressCallbacks,
                 undelivered, results, returned, foreign>>

\* The message event of a message m of a type that the switch does not have: default:
\* throw new Error(`Unknown message type: ${type}`), and the catch posts the failure
\* response in the same job.
OnUnknown(m) ==
  /\ ~MicrotaskQueued
  /\ m \in inbox /\ m.type \notin {"CLAIM_CLIENTS", "SHALLOW_RETRIEVAL", "EXTRACT_PAIRS"}
  /\ inbox' = inbox \ {m}
  /\ nTasks' = nTasks + 1
  /\ task' = [task EXCEPT ![nTasks + 1] = [NoTask EXCEPT !.kind = "unknown", !.pc = "done",
                 !.src = m.src, !.id = m.id, !.type = m.type]]
  /\ posted' = [posted EXCEPT ![nTasks + 1] =
       <<[type |-> ResponseType(m.type),
          to |-> IF m.src # NoSource THEN m.src ELSE "all",
          id |-> m.id, success |-> FALSE, data |-> <<>>,
          error |-> <<"Unknown message type", m.type>>,
          known |-> connected]>>]
  /\ UNCHANGED <<swVars, acq, walk, resp, mgrVars>>

\* ------------------------------------ processSubdirectoriesInBackground
\* What fs.ls(subdirCid) can do for one subdirectory: yield the entries of some listing
\* (a sequence of entry types) or throw an error with some message.
SubListings == UNION {[1..k -> EntryTypes] : k \in 0..MaxSubEntries}
LsErrors == {<<"ls failed">>, <<"no such block">>}
LsOutcomes == {[ok |-> TRUE, types |-> l, msg |-> <<>>] : l \in SubListings}
                \cup {[ok |-> FALSE, types |-> <<>>, msg |-> m] : m \in LsErrors}

\* Entries reported under their own names
UnprefixedFiles(path, types) ==
  [j \in 1..Len(types) |-> [name |-> <<j>>, type |-> types[j]]]

\* subdirFiles: name: `${subdir.path}/${entry.name}`
SubdirFiles(path, types) ==
  [j \in 1..Len(types) |-> [name |-> path \o <<j>>, type |-> types[j]]]

\* `await initHelia()` at the head of processSubdirectoriesInBackground settles; a
\* rejection leaves the function (nobody awaits or catches it).
BgBegin(b) ==
  /\ b <= nTasks /\ task[b].kind = "bg" /\ task[b].pc = "acquire"
  /\ acq[b].st \in {"ok", "err"}
  /\ task' = [task EXCEPT ![b].pc = IF acq[b].st = "ok" THEN "loop" ELSE "aborted"]
  /\ UNCHANGED <<swVars, nTasks, acq, walk, posted, resp, pageVars>>

\* A report of every listing, the empty ones too
ReportsEveryListing(clientId, subdirFiles) == clientId # NoSource

\* if (clientId && subdirFiles.length > 0)
ReportsFound(clientId, subdirFiles) == clientId # NoSource /\ Len(subdirFiles) > 0

\* A loop that a failed listing ends
StopsAtFailure(i, n, ok) == IF i = n \/ ~ok THEN "done" ELSE "loop"

\* for (const subdir of subdirectories) { try { ... } catch { ... } }: after the turn
\* for the i-th of n subdirectories the loop goes on to the next, whether or not the
\* listing failed, and the function returns after the last.
AfterSubdir(i, n, ok) == IF i = n THEN "done" ELSE "loop"

\* One turn of the loop: the subdirectory is listed with outcome o;
\* SUBDIRECTORY_FILES_FOUND with the prefixed entries, and in the catch
\* SUBDIRECTORY_ERROR with the error's message if (clientId).
BgProcess(b, o) ==
  /\ ~MicrotaskQueued
  /\ b <= nTasks /\ task[b].kind = "bg" /\ task[b].pc = "loop"
  /\ LET i == walk[b].sidx
         path == walk[b].subdirs[i]
         files == SubdirFiles(path, o.types)
         root == task[b].parent
     IN
     /\ posted' = [posted EXCEPT ![root] =
          IF o.ok
          THEN IF ReportsFound(task[b].src, files)
               THEN SendProgress(@, task[b].src, "SUBDIRECTORY_FILES_FOUND", "", 0,
                                 path, files, <<>>)
               ELSE @
          ELSE SendProgress(@, task[b].src, "SUBDIRECTORY_ERROR", "", 0,
                            path, <<>>, o.msg)]
     /\ walk' = [walk EXCEPT ![b].sidx = i + 1, ![b].outcomes = Append(@, o)]
     /\ task' = [task EXCEPT ![b].pc = AfterSubdir(i, Len(walk[b].subdirs), o.ok)]
  /\ UNCHANGED <<swVars, nTasks, acq, resp, pageVars>>

\* ---------------------------------------------------------- getMimeType
\* The file names of the requests.  filename.split('.') of each:
Split(name) ==
  CASE name = "photo.jpg" -> <<"photo", "jpg">>
    [] name = "PHOTO.JPG" -> <<"PHOTO", "JPG">>
    [] name = "scan.Pdf" -> <<"scan", "Pdf">>
    [] name = "item_meta.xml" -> <<"item_meta", "xml">>
    [] name = "book.tar.gz" -> <<"book", "tar", "gz">>
    [] name = "scans.jpg" -> <<"scans", "jpg">>
    [] name = "index.constructor" -> <<"index", "constructor">>
    [] name = "trailing." -> <<"trailing", "">>
    [] OTHER -> <<name>>    \* "notes", "constructor", "__proto__": no dot

\* ext.toLowerCase()
ToLowerCase(str) ==
  CASE str = "JPG" -> "jpg"
    [] str = "Pdf" -> "pdf"
    [] str = "PHOTO" -> "photo"
    [] OTHER -> str

\* const mimeTypes: Record<string, string> = { ... }
mimeTypes ==
  ("jpg" :> "image/jpeg") @@ ("jpeg" :> "image/jpeg") @@ ("png" :> "image/png") @@
  ("gif" :> "image/gif") @@ ("tif" :> "image/tiff") @@ ("tiff" :> "image/tiff") @@
  ("jp2" :> "image/jp2") @@ ("webp" :> "image/webp") @@ ("bmp" :> "image/bmp") @@
  ("pdf" :> "application/pdf") @@ ("txt" :> "text/plain") @@ ("html" :> "text/html") @@
  ("xml" :> "application/xml") @@ ("css" :> "text/css") @@
  ("js" :> "application/javascript") @@ ("json" :> "application/json")

\* mimeTypes is an object literal: a property it does not own is looked up in
\* Object.prototype.  Its lower-case property names, with String(value) of each (what
\* Headers.set makes of a value that is no string):
ObjectPrototype ==
  ("constructor" :> "function Object() { [native code] }") @@
  ("__proto__" :> "[object Object]")

OctetStream == "application/octet-stream"

\* mimeTypes[ext || ''] || 'application/octet-stream'
Lookup(ext) ==
  IF ext \in DOMAIN mimeTypes THEN mimeTypes[ext]
  ELSE IF ext \in DOMAIN ObjectPrototype THEN ObjectPrototype[ext]
  ELSE OctetStream

\* The name after the last slash of a path is all that split('.').pop() can see of it
\* when that name has a dot; otherwise the popped string runs over a slash.
WithSlash == "jpg/notes"
Pop(path) ==
  LET parts == Split(path[Len(path)]) IN
    IF Len(path) = 1 \/ Len(parts) > 1 THEN parts[Len(parts)] ELSE WithSlash

\* getMimeType(filename), for filename a path (its segments), <<>> when there is none:
\* if (!filename) return 'application/octet-stream'; ext = filename.split('.').pop()
\* ?.toLowerCase(); return mimeTypes[ext || ''] || 'application/octet-stream'
getMimeType(filename) ==
  IF filename = <<>> THEN OctetStream ELSE Lookup(ToLowerCase(Pop(filename)))

\* ------------------------------------------------- fetch event listener
\* url.pathname as its segments between slashes: "/ipfs-sw/" is <<"", "ipfs-sw", "">>.
Pathnames == {
  <<"", "ipfs-sw", "">>,                      \* /ipfs-sw/
  <<"", "app", "ipfs-sw", "">>,               \* /app/ipfs-sw/
  <<"", "ipfs-sw", "", "bafyA">>,             \* /ipfs-sw//bafyA
  <<"", "ipfs-sw", "bafyA">>,                 \* /ipfs-sw/bafyA
  <<"", "ipfs-sw", "bafyA", "photo.jpg">>,    \* /ipfs-sw/bafyA/photo.jpg
  <<"", "ipfs-sw", "notacid">>,               \* /ipfs-sw/notacid
  <<"", "index.html">> }                      \* /index.html
\* Requests the listener sees: within the registration's scope, and one outside it
\* (filename is the `filename` query parameter, "" when there is none).
FetchUrls == {[inScope |-> TRUE, segs |-> p, filename |-> "", size |-> <<>>] : p \in Pathnames}
               \cup {[inScope |-> FALSE, segs |-> <<"", "ipfs-sw", "bafyA">>, filename |-> "", size |-> <<>>]}

\* url.pathname.includes('/ipfs-sw/')
IncludesIpfsSw(segs) == \E i \in 2..(Len(segs) - 1) : segs[i] = "ipfs-sw"

\* url.href.startsWith(scope) && url.pathname.includes('/ipfs-sw/')
Intercepted(u) == u.inScope /\ IncludesIpfsSw(u.segs)

\* Where /\/ipfs-sw\/([^/?]+)(\/.*)?/ can match: "/ipfs-sw/" followed by at least one
\* character that is no slash.
MatchPositions(segs) == {i \in 2..(Len(segs) - 1) : segs[i] = "ipfs-sw" /\ segs[i + 1] # ""}

\* url.pathname.match(...): null, or match[1] and match[2]?.slice(1) || '' (the segments
\* after the CID; <<>> and <<"">> are the empty string).
NoMatch == [found |-> FALSE, cid |-> "", filePath |-> <<>>]
Match(segs) ==
  IF MatchPositions(segs) = {} THEN NoMatch
  ELSE LET i == CHOOSE k \in MatchPositions(segs) : \A m \in MatchPositions(segs) : k <= m
       IN [found |-> TRUE, cid |-> segs[i + 1], filePath |-> SubSeq(segs, i + 2, Len(segs))]

\* const filename = filePath || url.searchParams.get('filename')
Filename(u) ==
  LET filePath == Match(u.segs).filePath IN
    IF filePath # <<>> /\ filePath # <<"">> THEN filePath
    ELSE IF u.filename # "" THEN <<u.filename>>
    ELSE <<>>

\* A listener that tests only `if (!cid)`
MalformedWhenCidEmpty(u) == Match(u.segs).found /\ Match(u.segs).cid = ""

\* if (!match) ... if (!cid): the request is answered 400 before initHelia()
Malformed(u) == ~Match(u.segs).found \/ Match(u.segs).cid = ""

\* What the external verifiedFetch(ipfsUrl) can do: resolve with a Response of some
\* status, or reject; for a string that is no CID it cannot deliver content.  The file
\* has 1024 bytes: the body of a 200 Response is the file, that of a 206 Response (the
\* request's Range header is forwarded) the 5 bytes of the range; bytes is the length
\* of response.body.
\* The headers of the Responses of verifiedFetch: one that sets every header the
\* listener sets, to other values, and one that sets none of them.
NoHeaders == <<>>
FullHeaders ==
  ("Content-Type" :> "text/html") @@ ("Cache-Control" :> "no-store") @@
  ("Access-Control-Allow-Origin" :> "https://example.org") @@
  ("Accept-Ranges" :> "none") @@ ("Content-Length" :> "1024") @@ ("ETag" :> "bafyA")
RangeHeaders == ("Content-Range" :> "bytes 0-4/1024")

VerifiedFetchResults(cid) ==
  IF CidParses(cid)
  THEN {[ok |-> TRUE, status |-> 200, statusText |-> "OK", headers |-> FullHeaders,
         bytes |-> 1024],
        [ok |-> TRUE, status |-> 206, statusText |-> "Partial Content",
         headers |-> RangeHeaders, bytes |-> 5],
        [ok |-> FALSE, status |-> 0, statusText |-> "", headers |-> NoHeaders,
         bytes |-> 0]}
  ELSE {[ok |-> TRUE, status |-> 400, statusText |-> "Bad Request", headers |-> NoHeaders,
         bytes |-> 0],
        [ok |-> FALSE, status |-> 0, statusText |-> "", headers |-> NoHeaders,
         bytes |-> 0]}

\* (error as Error).message of a rejection of verifiedFetch
VerifiedFetchError == <<"verified fetch failed">>
\* ... and of the TypeError of calling the null verifiedFetch of an incomplete handle
NotAFunction == <<"verifiedFetch is not a function">>

\* A fetch event arrives.  A request that is not intercepted proceeds normally; the
\* others get respondWith(...), which runs up to `await initHelia()` unless the
\* pathname does not match.
OnFetch(u) ==
  /\ ~MicrotaskQueued
  /\ Started("fetch") < MaxFetches
  /\ nTasks' = nTasks + 1
  /\ IF ~Intercepted(u)
     THEN /\ task' = [task EXCEPT ![nTasks + 1] =
                        [NoTask EXCEPT !.kind = "fetch", !.pc = "passthrough", !.url = u]]
          /\ UNCHANGED <<resp, acq, isInitializing, initializationPromise, nInits, doInit>>
     ELSE IF Malformed(u)
     THEN /\ task' = [task EXCEPT ![nTasks + 1] =
                        [NoTask EXCEPT !.kind = "fetch", !.pc = "done", !.url = u]]
          /\ resp' = [resp EXCEPT ![nTasks + 1] =
                        [NoResp EXCEPT !.st = "sent", !.status = BadRequestStatus,
                                       !.body = IF ~Match(u.segs).found
                                                THEN <<"Invalid IPFS URL format">>
                                                ELSE <<"CID required">>]]
          /\ UNCHANGED <<acq, isInitializing, initializationPromise, nInits, doInit>>
     ELSE /\ task' = [task EXCEPT ![nTasks + 1] =
                        [NoTask EXCEPT !.kind = "fetch", !.pc = "acquire", !.url = u,
                                       !.cid = Match(u.segs).cid]]
          /\ InitHelia(nTasks + 1)
          /\ UNCHANGED resp
  /\ UNCHANGED <<helia, fs, verifiedFetch, walk, posted, pageVars>>

\* A catch block that rethrows: the promise given to respondWith rejects
CatchRethrows(t, msg) ==
  /\ task' = [task EXCEPT ![t].pc = "rejected"]
  /\ resp' = [resp EXCEPT ![t].thrown = msg]

\* An error with message msg is thrown inside the try (thrown records it):
\* catch (error) { return new Response(`Error: ${message}`, { status: 500 }) }
FetchCatch(t, msg) ==
  /\ task' = [task EXCEPT ![t].pc = "done"]
  /\ resp' = [resp EXCEPT ![t].st = "sent", ![t].status = ServerErrorStatus,
                          ![t].body = <<"Error">> \o msg, ![t].thrown = msg]

\* initHelia() has settled: verifiedFetch(ipfsUrl, { headers }) is called; calling the
\* null verifiedFetch of a handle throws a TypeError.
FetchBegin(t) ==
  /\ t <= nTasks /\ task[t].kind = "fetch" /\ task[t].pc = "acquire"
  /\ acq[t].st \in {"ok", "err"}
  /\ IF acq[t].st = "err" THEN FetchCatch(t, Message(acq[t].err))
     ELSE IF acq[t].h.verifiedFetch = 0
     THEN FetchCatch(t, NotAFunction)
     ELSE /\ task' = [task EXCEPT ![t].pc = "vf"]
          /\ resp' = [resp EXCEPT ![t].vfCalled = TRUE]
  /\ UNCHANGED <<swVars, nTasks, acq, walk, posted, pageVars>>

\* headers.set(name, value): the value replaces whatever the name had
HeadersSet(headers, name, value) ==
  [n \in DOMAIN headers \cup {name} |-> IF n = name THEN value ELSE headers[n]]

\* The `size` query parameters of the requests; parseInt(fileSizeParam, 10).toString()
\* of each: the leading digits, "NaN" when there are none.
SizeParams == {"1024", "0", "12abc", "abc", ""}
ParseIntToString(str) ==
  CASE str = "1024" -> "1024"
    [] str = "0" -> "0"
    [] str = "12abc" -> "12"
    [] OTHER -> "NaN"

\* if (fileSizeParam): url.searchParams.get('size') is null without the parameter (<<>>
\* here) and the empty string for `size=`
Truthy(param) == param # <<>> /\ param[1] # ""

\* const responseHeaders = new Headers(response.headers); the four set() calls; and
\* Content-Length if (fileSizeParam)
ResponseHeaders(headers, mimeType, fileSizeParam) ==
  LET h1 == HeadersSet(headers, "Content-Type", mimeType)
      h2 == HeadersSet(h1, "Cache-Control", "public, max-age=86400")
      h3 == HeadersSet(h2, "Access-Control-Allow-Origin", "*")
      h4 == HeadersSet(h3, "Accept-Ranges", "bytes")
  IN IF Truthy(fileSizeParam)
     THEN HeadersSet(h4, "Content-Length", ParseIntToString(fileSizeParam[1]))
     ELSE h4

\* verifiedFetch settles: its Response is passed on with its status, its status text
\* and its headers, Content-Type set to getMimeType(filename) and the other headers
\* above set; a rejection becomes the 500 response.
FetchSettles(t, r) ==
  /\ ~MicrotaskQueued
  /\ t <= nTasks /\ task[t].kind = "fetch" /\ task[t].pc = "vf"
  /\ r \in VerifiedFetchResults(task[t].cid)
  /\ IF r.ok
     THEN /\ task' = [task EXCEPT ![t].pc = "done"]
          /\ resp' = [resp EXCEPT ![t].st = "sent", ![t].status = r.status,
                         ![t].statusText = r.statusText,
                         ![t].upstream = [status |-> r.status, statusText |-> r.statusText,
                                          headers |-> r.headers],
                         ![t].contentType = getMimeType(Filename(task[t].url)),
                         ![t].bytes = r.bytes,
                         ![t].headers = ResponseHeaders(r.headers,
                                          getMimeType(Filename(task[t].url)),
                                          task[t].url.size)]
     ELSE FetchCatch(t, VerifiedFetchError)
  /\ UNCHANGED <<swVars, nTasks, acq, walk, posted, pageVars>>

\* ---------------------------------------------- ServiceWorkerManager
Pages == {"page1"}       \* the pages that run a ServiceWorkerManager

NoRecord == [present |-> FALSE, files |-> <<>>, timestamp |-> 0]
\* useState(null) of Home's results; cid is Home's cid state
NoResults == [set |-> FALSE, cid |-> "", originalFiles |-> <<>>]
NoListed == [st |-> "no", at |-> 0, files |-> <<>>]
NoReturn == [cid |-> "", hit |-> FALSE, files |-> <<>>, cleared |-> 0]
NoCall == [pc |-> "none", page |-> "", cid |-> "", hit |-> FALSE, next |-> "", id |-> 0,
           files |-> <<>>, pairs |-> <<>>, error |-> <<>>, sent |-> <<>>, ids |-> <<>>,
           at |-> 0, prior |-> NoListed, throws |-> FALSE, shown |-> FALSE,
           settles |-> <<>>, progress |-> <<>>]

\* The cutoff of clearOldCacheEntries used as the retention window
WithinCutoff(timestamp) == now - timestamp < CutoffDays

\* (now - data.timestamp) < (30 * 24 * 60 * 60 * 1000)
WithinRetention(timestamp) == now - timestamp < RetentionDays

\* if (cached) { ... if (data.timestamp && (now - data.timestamp) < ...) return data.files
Usable(record) ==
  record.present /\ record.timestamp # 0 /\ WithinRetention(record.timestamp)

\* getCachedDirectoryListing(cid): data.files or null ...
getCachedDirectoryListing(cid) ==
  IF Usable(localStorage[cid])
  THEN [hit |-> TRUE, files |-> localStorage[cid].files]
  ELSE [hit |-> FALSE, files |-> <<>>]

\* A read that leaves an expired record in the storage
KeepsExpired(cid) == localStorage

\* ... and its effect: localStorage.removeItem(cacheKey) of an expired record
AfterGetCached(cid) ==
  IF localStorage[cid].present /\ ~Usable(localStorage[cid])
  THEN [localStorage EXCEPT ![cid] = NoRecord]
  ELSE localStorage

\* clearOldCacheEntries(): cutoffTime = Date.now() - 7 days; the records with
\* data.timestamp && data.timestamp < cutoffTime are removed
clearOldCacheEntries(storage) ==
  [c \in Cids |->
     IF storage[c].present /\ storage[c].timestamp # 0
          /\ storage[c].timestamp < now - CutoffDays
     THEN NoRecord ELSE storage[c]]

\* The values of an entry's size are [kind, v]: a number, a bigint or a string with the
\* digits of v, or undefined; Absent stands for a key that the object does not have.
Undefined == [kind |-> "undefined", v |-> 0]
Absent == [kind |-> "absent", v |-> 0]

\* typeof serializable[key] === 'bigint' (of the keys of an entry only size can be one)
IsBigInt(file, key) == key = "size" /\ file[key].kind = "bigint"

\* serializable[key].toString(): the decimal digits of the bigint
BigIntToString(value) == [kind |-> "string", v |-> value.v]

\* const serializable = { ...file }; the bigint values of its keys become strings
Serializable(file) ==
  [key \in DOMAIN file |-> IF IsBigInt(file, key) THEN BigIntToString(file[key]) ELSE file[key]]

\* JSON.stringify(data), as the object JSON.parse gives back for it: a key whose value
\* is undefined is left out; strings and numbers come back as they are
Stringify(file) ==
  [key \in DOMAIN file |->
     IF key = "size" /\ file[key].kind = "undefined" THEN Absent ELSE file[key]]

\* A write that skips the conversion of the bigint values
StoredUnconverted(files) == [i \in 1..Len(files) |-> Stringify(files[i])]

\* data.files of the record written for files
Stored(files) == [i \in 1..Len(files) |-> Stringify(Serializable(files[i]))]

\* setCachedDirectoryListing(cid, files): localStorage.setItem stores the record, or
\* throws (the storage is full) and the catch runs clearOldCacheEntries()
setCachedDirectoryListing(cid, files, stored) ==
  IF stored
  THEN [localStorage EXCEPT ![cid] =
          [present |-> TRUE, files |-> Stored(files), timestamp |-> now]]
  ELSE clearOldCacheEntries(localStorage)

\* History: the listing of cid has been obtained now, its record written or not; any
\* removal from the storage forgets it for every CID.
Removed(before, after) == \E c \in Cids : before[c].present /\ ~after[c].present
Forget(after, l) == IF Removed(localStorage, after) THEN [c \in Cids |-> NoListed] ELSE l

\* An earlier call for this CID has returned and none is still running (history, with
\* listed).
InSuccession(cid) ==
  /\ \A j \in 1..nCalls : call[j].cid = cid => call[j].pc \in {"done", "failed"}
  /\ \E j \in 1..nCalls : call[j].cid = cid /\ call[j].pc = "done"

\* Home's handleSubmit in page p, with c in the cid field, calls setResults(null) and
\* getItemListing(cid, onProgress): the cache is read; on a hit extractPairs
\* (cachedFiles) is called, otherwise performShallowRetrieval(cid, listingProgress), which
\* reads the cache again and calls sendMessage('SHALLOW_RETRIEVAL', { cid },
\* listingProgress); sendMessage awaits ensureValidController().  thr: the caller's
\* onProgress throws when it is given a directory_listing step.
GetItemListing(p, c, thr) ==
  /\ nCalls < MaxCalls
  /\ LET cached == getCachedDirectoryListing(c) IN
     /\ nCalls' = nCalls + 1
     /\ localStorage' = AfterGetCached(c)
     /\ listed' = Forget(AfterGetCached(c), listed)
     /\ call' = [call EXCEPT ![nCalls + 1] =
          [NoCall EXCEPT !.pc = "controller", !.page = p, !.cid = c, !.hit = cached.hit,
             !.files = cached.files,
             !.next = IF cached.hit THEN "EXTRACT_PAIRS" ELSE "SHALLOW_RETRIEVAL",
             !.at = now, !.prior = IF InSuccession(c) THEN listed[c] ELSE NoListed,
             !.throws = thr]]
     /\ results' = [results EXCEPT ![p] = [NoResults EXCEPT !.cid = c]]
     /\ returned' = [returned EXCEPT !.cid = c, !.hit = cached.hit, !.files = cached.files]
  /\ UNCHANGED <<swVars, connected, backgroundProgressCallbacks, undelivered, foreign,
                 nTasks, task, acq, walk, posted, resp, inbox, messageId,
                 pendingMessages, now, nTicks, cursor>>

\* The controller is valid: const id = ++this.messageId; pendingMessages.set(id, ...);
\* this.worker.postMessage({ type, payload, id }); the 5-minute timer is armed.
PostToWorker(k) ==
  /\ k <= nCalls /\ call[k].pc = "controller"
  /\ LET pg == call[k].page
         id == messageId[pg] + 1
     IN
     /\ messageId' = [messageId EXCEPT ![pg] = id]
     /\ pendingMessages' = [pendingMessages EXCEPT ![pg] =
                              @ \cup {[id |-> id, type |-> call[k].next, call |-> k]}]
     /\ inbox' = inbox \cup {[src |-> pg, type |-> call[k].next, cid |-> call[k].cid,
                              files |-> call[k].files, id |-> id]}
     /\ call' = [call EXCEPT ![k].pc = "pending", ![k].id = id,
                             ![k].sent = Append(@, call[k].next),
                             ![k].ids = Append(@, id)]
  /\ UNCHANGED <<swVars, extVars, nTasks, task, acq, walk, posted, resp, localStorage, now,
                 nTicks, nCalls, cursor, listed>>

\* this.worker.postMessage throws: pendingMessages.delete(id); reject(error)
PostMessageThrows(k) ==
  /\ k <= nCalls /\ call[k].pc = "controller"
  /\ messageId' = [messageId EXCEPT ![call[k].page] = @ + 1]
  /\ call' = [call EXCEPT ![k].pc = "failed", ![k].id = messageId[call[k].page] + 1,
                          ![k].ids = Append(@, messageId[call[k].page] + 1),
                          ![k].error = <<"postMessage failed">>,
                          ![k].settles = Append(@, <<messageId[call[k].page] + 1, "reject">>)]
  /\ UNCHANGED <<swVars, extVars, nTasks, task, acq, walk, posted, resp, inbox, pendingMessages,
                 localStorage, now, nTicks, nCalls, cursor, listed>>

\* The caller of sendMessage resumes with the response m.  After SHALLOW_RETRIEVAL:
\* performShallowRetrieval caches the files and returns them, getItemListing calls
\* extractPairs(files); a failure is rethrown.  After EXTRACT_PAIRS: getItemListing
\* returns the files and the pairs, or throws when there are none.
Resume(k, m, stored) ==
  IF ~m.success
  THEN /\ call' = [call EXCEPT ![k].pc = "failed", ![k].error = m.error,
                               ![k].settles = Append(@, <<m.id, "reject">>),
                               ![k].progress = <<>>]
       /\ UNCHANGED <<localStorage, listed>>
  ELSE IF call[k].next = "SHALLOW_RETRIEVAL"
  THEN LET after == setCachedDirectoryListing(call[k].cid, m.data, stored) IN
       /\ localStorage' = after
       /\ listed' = [Forget(after, listed) EXCEPT ![call[k].cid] =
                       [st |-> IF stored THEN "stored" ELSE "unstored", at |-> now,
                        files |-> m.data]]
       /\ call' = [call EXCEPT ![k].pc = "controller", ![k].next = "EXTRACT_PAIRS",
                               ![k].files = m.data,
                               ![k].settles = Append(@, <<m.id, "resolve">>),
                               ![k].progress = <<>>]
  ELSE /\ call' = [call EXCEPT ![k].pairs = m.data,
                     ![k].pc = IF Len(m.data) = 0 THEN "failed" ELSE "done",
                     ![k].error = IF Len(m.data) = 0 THEN <<"No matching XML pairs found">>
                                  ELSE <<>>,
                     ![k].settles = Append(@, <<m.id, "resolve">>)]
       /\ UNCHANGED <<localStorage, listed>>

\* A table that keeps the entry of a message that has been settled
KeepsSettled(table, q) == table

\* this.pendingMessages.delete(id), before resolve or reject is called
AfterSettle(table, q) == table \ {q}

\* A lookup that takes any pending message
AnyPending(p, id) == pendingMessages[p]

\* this.pendingMessages.has(id) / .get(id): the pending messages of page p with that id
Matching(p, id) == {q \in pendingMessages[p] : q.id = id}

\* The subscribers of page p: the pending messages that have an onProgress (those of
\* performShallowRetrieval; extractPairs passes none), and the persistent callbacks.
WithOnProgress(p) == {q \in pendingMessages[p] : q.type = "SHALLOW_RETRIEVAL"}
Persistent(p) ==
  {backgroundProgressCallbacks[p][i] : i \in 1..Len(backgroundProgressCallbacks[p])}

\* listingProgress of call k, given progressData: it calls the caller's onProgress for
\* a DIRECTORY_LISTING_PROGRESS; the call throws when that onProgress does.
OnProgressThrows(k, data) == data.type = "DIRECTORY_LISTING_PROGRESS" /\ call[k].throws

\* for (const [, pendingMessage] of this.pendingMessages) pendingMessage.onProgress(...)
\* in the order of insertion, which is the order of the ids: the pending messages that
\* are called before the loop ends, normally or by an exception ...
CalledPending(p, data) ==
  {q \in WithOnProgress(p) :
     \A r \in WithOnProgress(p) : OnProgressThrows(r.call, data) => q.id <= r.id}
\* ... and whether an exception ends it, and handleMessage with it
PendingThrows(p, data) == \E q \in WithOnProgress(p) : OnProgressThrows(q.call, data)

\* for (const callback of this.backgroundProgressCallbacks) try { callback(...) } catch:
\* the persistent callbacks that are called
CalledPersistent(p, data) == IF PendingThrows(p, data) THEN {} ELSE Persistent(p)

\* const progressData = { step: 'background_processing', type: data.type, ...,
\* subdirectory: data.subdirectory, files: data.files, error: data.error }: the object
\* that handleMessage builds from the data of a SW_PROGRESS_UPDATE (<<v>> is a field
\* of value v).
ProgressData(data) ==
  [type |-> <<data.type>>, subdirectory |-> <<data.subdirectory>>,
   files |-> <<data.files>>, error |-> <<data.error>>]

\* progressData[key]: undefined (<<>>) for a key the object does not have
Get(progressData, key) == IF key \in DOMAIN progressData THEN progressData[key] ELSE <<>>

\* listingProgress(progressData) of getItemListing: the object it gives to the caller's
\* onProgress for a DIRECTORY_LISTING_PROGRESS, nothing (<<>>) for other types.
ListingProgress(progressData) ==
  IF progressData.type = <<"DIRECTORY_LISTING_PROGRESS">>
  THEN <<[step |-> "directory_listing",
          entriesFound |-> Get(progressData, "entriesFound"),
          stage |-> Get(progressData, "stage")]>>
  ELSE <<>>

\* pendingMessage.onProgress(progressData) for the pending messages that are called.
\* History: the last call of each is recorded with the message <<t, j>> it is made for,
\* as long as the message is pending.
OnProgressCalled(p, t, j, data) ==
  [k \in DOMAIN call |->
     IF \E q \in CalledPending(p, data) : q.call = k
     THEN [call[k] EXCEPT !.progress =
             <<[from |-> <<t, j>>, relayed |-> ListingProgress(ProgressData(data))]>>]
     ELSE call[k]]

\* Home's backgroundProgressHandler gets progressData: for SUBDIRECTORY_FILES_FOUND,
\* setResults(prev => ...) leaves a null prev as it is, and otherwise appends the files
\* to prev.originalFiles and calls setCachedDirectoryListing(cid, updatedOriginalFiles).
HomeAppends(p, data) ==
  /\ "home" \in CalledPersistent(p, data)
  /\ data.type = "SUBDIRECTORY_FILES_FOUND"
  /\ results[p].set

\* handleMessage(event) in page p for the next message of traversal t's log (the
\* messages of one traversal arrive in the order in which they were posted): a progress
\* update goes to the onProgress of the pending messages and to the persistent
\* callbacks; a response settles the pending message with its id, which is deleted,
\* and is dropped when there is none.
HandleMessage(p, t, stored) ==
  /\ t <= nTasks /\ cursor[p][t] < Len(posted[t])
  /\ LET m == posted[t][cursor[p][t] + 1]
         match == Matching(p, m.id)
     IN
     /\ m.to \in {p, "all"}
     /\ cursor' = [cursor EXCEPT ![p][t] = @ + 1]
     /\ IF m.type = "SW_PROGRESS_UPDATE"
        THEN /\ undelivered' = [undelivered EXCEPT ![p] = @ \cup
                   {[t |-> t, k |-> cursor[p][t] + 1, pending |-> q.id, callback |-> ""] :
                      q \in WithOnProgress(p) \ CalledPending(p, m.data)} \cup
                   {[t |-> t, k |-> cursor[p][t] + 1, pending |-> 0, callback |-> cb] :
                      cb \in Persistent(p) \ CalledPersistent(p, m.data)}]
             /\ IF HomeAppends(p, m.data)
                THEN LET updatedOriginalFiles == results[p].originalFiles \o m.data.files
                         after == setCachedDirectoryListing(results[p].cid,
                                                            updatedOriginalFiles, stored)
                     IN /\ results' = [results EXCEPT ![p].originalFiles = updatedOriginalFiles]
                        /\ localStorage' = after
                        /\ listed' = [Forget(after, listed) EXCEPT ![results[p].cid] =
                                        [st |-> IF stored THEN "stored" ELSE "unstored",
                                         at |-> now, files |-> updatedOriginalFiles]]
                ELSE /\ stored
                     /\ UNCHANGED <<results, localStorage, listed>>
             /\ call' = OnProgressCalled(p, t, cursor[p][t] + 1, m.data)
             /\ UNCHANGED pendingMessages
        ELSE IF match # {}
        THEN LET q == CHOOSE x \in match : TRUE IN
             /\ pendingMessages' = [pendingMessages EXCEPT ![p] = AfterSettle(@, q)]
             /\ Resume(q.call, m, stored)
             /\ UNCHANGED <<undelivered, results>>
        ELSE /\ stored
             /\ UNCHANGED <<pendingMessages, call, localStorage, listed, undelivered, results>>
  /\ UNCHANGED <<swVars, connected, backgroundProgressCallbacks, returned, foreign, nTasks, task, acq,
                 walk, posted, resp, inbox, messageId, now, nTicks, nCalls>>

\* addBackgroundProgressCallback(callback) in page p, for a callback that throws
\* whatever it is given: this.backgroundProgressCallbacks.add(callback)
AddBackgroundProgressCallback(p, cb) ==
  /\ cb \notin Persistent(p)
  /\ backgroundProgressCallbacks' = [backgroundProgressCallbacks EXCEPT ![p] = Append(@, cb)]
  /\ UNCHANGED <<swVars, nTasks, task, acq, walk, posted, resp, inbox, messageId,
                 pendingMessages, localStorage, now, nTicks, nCalls, call, cursor, listed,
                 connected, undelivered, results, returned, foreign>>

\* handleSubmit after `await getItemListing(...)` has returned for call k and the
\* meta.xml files of the pairs have been fetched: setResults({ originalFiles, ... })
HomeShow(k) ==
  /\ k <= nCalls /\ call[k].pc = "done" /\ ~call[k].shown
  /\ call' = [call EXCEPT ![k].shown = TRUE]
  /\ results' = [results EXCEPT ![call[k].page].set = TRUE,
                                ![call[k].page].originalFiles = call[k].files]
  /\ UNCHANGED <<swVars, nTasks, task, acq, walk, posted, resp, inbox, messageId,
                 pendingMessages, localStorage, now, nTicks, nCalls, cursor, listed,
                 connected, backgroundProgressCallbacks, undelivered, returned, foreign>>

\* The cid state of Home in page p becomes c, by the input's onChange={(e) =>
\* setCid(e.target.value)} or by handleHashChange; the results shown stay, and the
\* effect registers a backgroundProgressHandler that closes over the new cid.
SetCid(p, c) ==
  /\ results[p].cid # c
  /\ results' = [results EXCEPT ![p].cid = c]
  /\ UNCHANGED <<swVars, nTasks, task, acq, walk, posted, resp, inbox, messageId,
                 pendingMessages, localStorage, now, nTicks, nCalls, call, cursor, listed,
                 connected, backgroundProgressCallbacks, undelivered, returned, foreign>>

\* A timer that rejects and leaves the entry in the table
TimeoutKeepsEntry(k) ==
  /\ k <= nCalls /\ call[k].pc = "pending"
  /\ \E q \in pendingMessages[call[k].page] : q.id = call[k].id
  /\ call' = [call EXCEPT ![k].pc = "failed",
                          ![k].error = <<"Message timeout", call[k].next>>]
  /\ UNCHANGED <<swVars, extVars, nTasks, task, acq, walk, posted, resp, inbox, messageId,
                 pendingMessages, localStorage, now, nTicks, nCalls, cursor, listed>>

\* A timer that rejects every pending message of the page
TimeoutClearsTable(k) ==
  /\ k <= nCalls /\ call[k].pc = "pending"
  /\ \E q \in pendingMessages[call[k].page] : q.id = call[k].id
  /\ pendingMessages' = [pendingMessages EXCEPT ![call[k].page] = {}]
  /\ call' = [j \in Calls |->
               IF call[j].pc = "pending" /\ call[j].page = call[k].page
               THEN [call[j] EXCEPT !.pc = "failed",
                                    !.error = <<"Message timeout", call[j].next>>]
               ELSE call[j]]
  /\ UNCHANGED <<swVars, extVars, nTasks, task, acq, walk, posted, resp, inbox, messageId,
                 localStorage, now, nTicks, nCalls, cursor, listed>>

\* The 5-minute timer of call k's message fires while it is pending:
\* pendingMessages.delete(id); reject(new Error(`Message timeout ... for type: ${type}`))
MessageTimeout(k) ==
  /\ k <= nCalls /\ call[k].pc = "pending"
  /\ \E q \in pendingMessages[call[k].page] : q.id = call[k].id
  /\ pendingMessages' = [pendingMessages EXCEPT ![call[k].page] =
                           {q \in @ : q.id # call[k].id}]
  /\ call' = [call EXCEPT ![k].pc = "failed",
                          ![k].error = <<"Message timeout", call[k].next>>,
                          ![k].settles = Append(@, <<call[k].id, "reject">>),
                          ![k].progress = <<>>]
  /\ UNCHANGED <<swVars, extVars, nTasks, task, acq, walk, posted, resp, inbox, messageId,
                 localStorage, now, nTicks, nCalls, cursor, listed>>

\* setCachedDirectoryListing(c, files) called on the manager: the record is written, or
\* the write throws and the old records are cleared
SetCachedDirectoryListing(c, files, stored) ==
  /\ LET after == setCachedDirectoryListing(c, files, stored) IN
     /\ localStorage' = after
     /\ listed' = [Forget(after, listed) EXCEPT ![c] =
                     [st |-> IF stored THEN "stored" ELSE "unstored", at |-> now,
                      files |-> files]]
  /\ UNCHANGED <<swVars, extVars, nTasks, task, acq, walk, posted, resp, inbox, messageId,
                 pendingMessages, now, nTicks, nCalls, call, cursor>>

\* getCachedDirectoryListing(c) called on the manager
GetCachedDirectoryListing(c) ==
  /\ returned' = [returned EXCEPT !.cid = c, !.hit = getCachedDirectoryListing(c).hit,
                                  !.files = getCachedDirectoryListing(c).files]
  /\ localStorage' = AfterGetCached(c)
  /\ listed' = Forget(AfterGetCached(c), listed)
  /\ UNCHANGED <<swVars, connected, backgroundProgressCallbacks, undelivered, results, foreign,
                 nTasks, task, acq, walk, posted, resp, inbox, messageId,
                 pendingMessages, now, nTicks, nCalls, call, cursor>>

\* The keys of the storage are <<prefix, rest>>: `${this.cachePrefix}${cid}` for the
\* records of the directory cache, `${this.fileCachePrefix}${cid}` for those of the
\* file cache of App.jsx.
cachePrefix == "helia_directory_"
fileCachePrefix == "helia_file_"
Key(prefix, cid) == <<prefix, cid>>

\* A test that every key passes
StartsWithAnything(key, prefix) == TRUE

\* key.startsWith(prefix)
StartsWith(key, prefix) == key[1] = prefix

\* localStorage.key(i) for i < localStorage.length: the keys of the storage
StorageKeys == {Key(cachePrefix, c) : c \in {x \in Cids : localStorage[x].present}} \cup foreign

\* clearDirectoryCache: the keys with key && key.startsWith(this.cachePrefix)
keysToRemove == {key \in StorageKeys : StartsWith(key, cachePrefix)}

\* clearDirectoryCache(), from the button that Home shows while its cache statistics
\* count a record: keysToRemove.forEach(key => localStorage.removeItem(key)); return
\* keysToRemove.length
ClearDirectoryCache ==
  /\ \E c \in Cids : localStorage[c].present
  /\ localStorage' = [c \in Cids |-> IF Key(cachePrefix, c) \in keysToRemove
                                      THEN NoRecord ELSE localStorage[c]]
  /\ foreign' = foreign \ keysToRemove
  /\ returned' = [returned EXCEPT !.cleared = Cardinality(keysToRemove)]
  /\ listed' = [c \in Cids |-> NoListed]
  /\ UNCHANGED <<swVars, connected, backgroundProgressCallbacks, undelivered, results,
                 nTasks, task, acq, walk, posted, resp, inbox, messageId,
                 pendingMessages, now, nTicks, nCalls, call, cursor>>

\* App.jsx's setCachedFile(c, ...) writes a record of its file cache:
\* localStorage.setItem(`${this.fileCachePrefix}${cid}`, ...)
SetCachedFile(c) ==
  /\ Key(fileCachePrefix, c) \notin foreign
  /\ foreign' = foreign \cup {Key(fileCachePrefix, c)}
  /\ UNCHANGED <<swVars, connected, backgroundProgressCallbacks, undelivered, results,
                 returned, nTasks, task, acq, walk, posted, resp, inbox, messageId,
                 pendingMessages, localStorage, now, nTicks, nCalls, call, cursor, listed>>

\* Days pass.  A call lasts minutes (its messages time out after 5 minutes), so on
\* this scale the clock steps between the calls.
DaySteps == {CutoffDays + 1, RetentionDays}
Tick(d) ==
  /\ nTicks < MaxTicks
  /\ \A k \in 1..nCalls : call[k].pc \in {"done", "failed"}
  /\ nTicks' = nTicks + 1
  /\ now' = now + d
  /\ UNCHANGED <<swVars, extVars, nTasks, task, acq, walk, posted, resp, inbox, messageId,
                 pendingMessages, localStorage, nCalls, call, cursor, listed>>

\* ------------------------------------------------------ specification
\* The module has been evaluated: the auto-initialisation `initHelia().then(...)` has
\* started doInitialization call 1, which awaits blockstore.open().
Init ==
  /\ helia = 0 /\ fs = 0 /\ verifiedFetch = 0
  /\ isInitializing = TRUE
  /\ initializationPromise = 1
  /\ nInits = 1
  /\ doInit = [n \in Inits |-> IF n = 1 THEN [IdleInit EXCEPT !.pc = "open"] ELSE IdleInit]
  /\ nTasks = 1
  /\ task = [t \in Tasks |-> IF t = 1 THEN [NoTask EXCEPT !.kind = "auto", !.pc = "acquire"]
                             ELSE NoTask]
  /\ acq = [t \in Tasks |-> IF t = 1
                            THEN [NoAcq EXCEPT !.st = "wait", !.role = "initiator",
                                               !.init = 1, !.during = 1]
                            ELSE NoAcq]
  /\ walk = [t \in Tasks |-> NoWalk]
  /\ posted = [t \in Tasks |-> <<>>]
  /\ resp = [t \in Tasks |-> NoResp]
  /\ inbox = {}
  /\ messageId = [p \in Pages |-> 0]
  /\ pendingMessages = [p \in Pages |-> {}]
  /\ localStorage = [c \in Cids |-> NoRecord]
  /\ now = 1
  /\ nTicks = 0
  /\ nCalls = 0
  /\ call = [k \in Calls |-> NoCall]
  /\ cursor = [p \in Pages |-> [t \in Tasks |-> 0]]
  /\ listed = [c \in Cids |-> NoListed]
  /\ connected = {"page1"}
  /\ backgroundProgressCallbacks = [p \in Pages |-> <<"home">>]
  /\ undelivered = [p \in Pages |-> {}]
  /\ results = [p \in Pages |-> NoResults]
  /\ returned = NoReturn
  /\ foreign = {}

\* The .then/.catch of the auto-initialisation only logs.
AutoInitSettled(t) ==
  /\ t <= nTasks /\ task[t].kind = "auto" /\ task[t].pc = "acquire"
  /\ acq[t].st \in {"ok", "err"}
  /\ task' = [task EXCEPT ![t].pc = "done"]
  /\ UNCHANGED <<swVars, nTasks, acq, walk, posted, resp, pageVars>>

\* The worker once its auto-initialisation has succeeded and no page has called it yet.
InitReady ==
  /\ helia = 1 /\ fs = 1 /\ verifiedFetch = 1
  /\ isInitializing = FALSE
  /\ initializationPromise = 1
  /\ nInits = 1
  /\ doInit = [n \in Inits |->
                 IF n = 1
                 THEN [pc |-> "returned", create |-> "resolved", cause |-> "none",
                       value |-> [helia |-> 1, fs |-> 1, verifiedFetch |-> 1],
                       resumed |-> TRUE]
                 ELSE IdleInit]
  /\ nTasks = 1
  /\ task = [t \in Tasks |-> IF t = 1 THEN [NoTask EXCEPT !.kind = "auto", !.pc = "done"]
                             ELSE NoTask]
  /\ acq = [t \in Tasks |-> IF t = 1
                            THEN [NoAcq EXCEPT !.st = "ok", !.role = "initiator",
                                    !.init = 1, !.during = 1,
                                    !.h = [helia |-> 1, fs |-> 1, verifiedFetch |-> 1]]
                            ELSE NoAcq]
  /\ walk = [t \in Tasks |-> NoWalk]
  /\ posted = [t \in Tasks |-> <<>>]
  /\ resp = [t \in Tasks |-> NoResp]
  /\ inbox = {}
  /\ messageId = [p \in Pages |-> 0]
  /\ pendingMessages = [p \in Pages |-> {}]
  /\ localStorage = [c \in Cids |-> NoRecord]
  /\ now = 1
  /\ nTicks = 0
  /\ nCalls = 0
  /\ call = [k \in Calls |-> NoCall]
  /\ cursor = [p \in Pages |-> [t \in Tasks |-> 0]]
  /\ listed = [c \in Cids |-> NoListed]
  /\ connected = {"page1"}
  /\ backgroundProgressCallbacks = [p \in Pages |-> <<"home">>]
  /\ undelivered = [p \in Pages |-> {}]
  /\ results = [p \in Pages |-> NoResults]
  /\ returned = NoReturn
  /\ foreign = {}

\* The handle: doInitialization's steps and the resumption of initHelia's callers.
HandleNext ==
  \/ \E t \in Tasks : InitiatorResume(t)
  \/ \E t \in Tasks : WaiterResume(t)
  \/ \E n \in Inits : BlockstoreOpened(n)
  \/ \E n \in Inits : BlockstoreOpenFails(n)
  \/ \E n \in Inits : CreateHeliaResolves(n)
  \/ \E n \in Inits : CreateHeliaRejects(n)
  \/ \E n \in Inits : TimeoutFires(n)
  \/ \E n \in Inits : VerifiedFetchCreated(n)
  \/ \E n \in Inits : VerifiedFetchFails(n)
  \/ \E t \in Tasks : AutoInitSettled(t)

\* The root listings of the worker, up to the start of the background processing.
RootListingNext ==
  \/ \E m \in inbox : OnShallowRetrieval(m)
  \/ \E t \in Tasks : ShallowBegin(t)
  \/ \E t \in Tasks, ty \in EntryTypes : ShallowNext(t, ty)
  \/ \E t \in Tasks : ShallowLsThrows(t)
  \/ \E t \in Tasks : ShallowLsDone(t)
  \/ \E t \in Tasks : ShallowRespond(t)
  \/ \E b \in Tasks : BgBegin(b)

\* Directory traversals requested by any sender.
WalkNext ==
  \/ \E s \in Sources, c \in Cids : PostShallowRetrieval(s, c)
  \/ RootListingNext
  \/ \E b \in Tasks, o \in LsOutcomes : BgProcess(b, o)

\* The pages' ServiceWorkerManager, and the worker's answer to EXTRACT_PAIRS.
PageNext ==
  \/ \E p \in Pages, c \in Cids : GetItemListing(p, c, FALSE)
  \/ \E k \in Calls : PostToWorker(k)
  \/ \E k \in Calls : PostMessageThrows(k)
  \/ \E m \in inbox : OnExtractPairs(m)
  \/ \E p \in Pages, t \in Tasks, stored \in BOOLEAN : HandleMessage(p, t, stored)
  \/ \E k \in Calls : MessageTimeout(k)
  \/ ClearDirectoryCache
  \/ \E d \in DaySteps : Tick(d)

\* Request interception.
FetchResults == VerifiedFetchResults("bafyA") \cup VerifiedFetchResults("notacid")
FetchNext ==
  \/ \E u \in FetchUrls : OnFetch(u)
  \/ \E t \in Tasks : FetchBegin(t)
  \/ \E t \in Tasks, r \in FetchResults : FetchSettles(t, r)

\* Content fetches of well-formed URLs only.
GoodUrl == [inScope |-> TRUE, segs |-> <<"", "ipfs-sw", "bafyA">>, filename |-> "", size |-> <<>>]
GoodFetchNext ==
  \/ OnFetch(GoodUrl)
  \/ \E t \in Tasks : FetchBegin(t)
  \/ \E t \in Tasks, r \in VerifiedFetchResults("bafyA") : FetchSettles(t, r)

\* Content requests with file names: after the CID, or in the `filename` parameter.
FileNames == {"photo.jpg", "PHOTO.JPG", "scan.Pdf", "item_meta.xml", "book.tar.gz",
              "index.constructor", "trailing.", "notes", "jpg", "constructor", "__proto__"}
ServeUrls ==
  {[inScope |-> TRUE, segs |-> <<"", "ipfs-sw", "bafyA", n>>, filename |-> "", size |-> <<>>] : n \in FileNames}
    \cup {[inScope |-> TRUE, segs |-> <<"", "ipfs-sw", "bafyA">>, filename |-> q, size |-> <<>>] :
             q \in {"", "photo.jpg", "index.constructor"}}
    \cup {[inScope |-> TRUE, segs |-> <<"", "ipfs-sw", "bafyA", "">>, filename |-> "scan.Pdf", size |-> <<>>],
          [inScope |-> TRUE, segs |-> <<"", "ipfs-sw", "bafyA", "scans.jpg", "notes">>,
           filename |-> "", size |-> <<>>],
          [inScope |-> TRUE, segs |-> <<"", "ipfs-sw", "bafyA", "notes">>,
           filename |-> "photo.jpg", size |-> <<>>]}
ServeNext ==
  \/ \E u \in ServeUrls : OnFetch(u)
  \/ \E t \in Tasks : FetchBegin(t)
  \/ \E t \in Tasks, r \in VerifiedFetchResults("bafyA") : FetchSettles(t, r)

\* The background process.
Next == HandleNext \/ WalkNext \/ FetchNext \/ PageNext
Spec == Init /\ [][Next]_vars

\* The handle and its callers alone (the auto-initialisation and content fetches).
HandleCallersNext == HandleNext \/ GoodFetchNext
SpecHandle == Init /\ [][HandleCallersNext]_vars

\* The handle and directory traversals.
HandleWalkNext == HandleNext \/ WalkNext
SpecWalk == Init /\ [][HandleWalkNext]_vars

\* The handle and the listing of a root directory of many files.
LongListingNext ==
  \/ HandleNext
  \/ \E s \in Sources, c \in Cids : PostShallowRetrieval(s, c)
  \/ \E m \in inbox : OnShallowRetrieval(m)
  \/ \E t \in Tasks : ShallowBegin(t)
  \/ \E t \in Tasks : ShallowNextUpTo(t, "file", MaxLongEntries)
  \/ \E t \in Tasks : ShallowLsThrows(t)
  \/ \E t \in Tasks : ShallowLsDone(t)
  \/ \E t \in Tasks : ShallowRespond(t)
SpecLongListing == Init /\ [][LongListingNext]_vars

\* The handle and directory traversals, when the listener's continuation runs once
\* performShallowRetrieval has settled; no listing need ever terminate.
SpecWalkRespond == SpecWalk /\ WF_vars(\E t \in Tasks : ShallowRespond(t))

\* The steps the worker takes by itself: every pending await settles (the construction,
\* the iteration of a listing) and every queued continuation runs.
WorkerStep ==
  \/ HandleNext
  \/ RootListingNext
  \/ \E b \in Tasks, o \in LsOutcomes : BgProcess(b, o)

\* The handle and directory traversals, when nothing the worker awaits hangs.
SpecWalkLive == SpecWalk /\ WF_vars(WorkerStep)

\* The handle and the request interception.
HandleFetchNext == HandleNext \/ FetchNext
SpecFetch == Init /\ [][HandleFetchNext]_vars

\* The construction of the handle when nothing fails.
ConstructNext ==
  \/ \E t \in Tasks : InitiatorResume(t)
  \/ \E t \in Tasks : WaiterResume(t)
  \/ \E n \in Inits : BlockstoreOpened(n)
  \/ \E n \in Inits : CreateHeliaResolves(n)
  \/ \E n \in Inits : VerifiedFetchCreated(n)
  \/ \E t \in Tasks : AutoInitSettled(t)

\* Content requests with and without a `size` parameter, of a worker that is ready.
HeaderUrls ==
  {[inScope |-> TRUE, segs |-> <<"", "ipfs-sw", "bafyA">>, filename |-> q, size |-> sz] :
     q \in {"", "photo.jpg", "index.constructor"},
     sz \in {<<>>} \cup {<<x>> : x \in SizeParams}}
HeadersNext ==
  \/ \E u \in HeaderUrls : OnFetch(u)
  \/ \E t \in Tasks : FetchBegin(t)
  \/ \E t \in Tasks, r \in VerifiedFetchResults("bafyA") : FetchSettles(t, r)
SpecHeaders == InitReady /\ [][HeadersNext]_vars

\* Content served from a handle whose construction does not fail.
ConstructServeNext == ConstructNext \/ ServeNext
SpecServe == Init /\ [][ConstructServeNext]_vars

\* Traversals requested by the windows of a worker that is ready.
FanoutNext ==
  \/ \E w \in Windows : Connect(w)
  \/ \E w \in Windows : PostShallowRetrieval(w, "bafyA")
  \/ RootListingNext
  \/ \E b \in Tasks, o \in LsOutcomes : BgProcess(b, o)
SpecFanout == InitReady /\ [][FanoutNext]_vars

\* The progress events of the listings of a worker that is ready, and the subscribers
\* of the pages.
ProgressNext ==
  \/ RootListingNext
  \/ \E p \in Pages : AddBackgroundProgressCallback(p, "faulty")
  \/ \E p \in Pages, thr \in BOOLEAN : GetItemListing(p, "bafyA", thr)
  \/ \E k \in Calls : PostToWorker(k)
  \/ \E m \in inbox : OnExtractPairs(m)
  \/ \E p \in Pages, t \in Tasks, stored \in BOOLEAN : HandleMessage(p, t, stored)
SpecProgress == InitReady /\ [][ProgressNext]_vars

\* The cache methods of the manager, called for one CID with entry lists whose sizes
\* are numbers, bigints or undefined.
MaxStoreLen == 2     \* entries in a list given to setCachedDirectoryListing
Sizes == {[kind |-> "number", v |-> 5], [kind |-> "bigint", v |-> 5], Undefined}
StoreEntries == {[name |-> <<1>>, type |-> "file", size |-> sz] : sz \in Sizes}
StoreFiles == UNION {[1..n -> StoreEntries] : n \in 0..MaxStoreLen}
StoreCids == {"bafyA"}    \* the CIDs of the records written and read
StoreNext ==
  \/ \E c \in StoreCids, files \in StoreFiles, stored \in BOOLEAN :
       SetCachedDirectoryListing(c, files, stored)
  \/ \E c \in StoreCids : GetCachedDirectoryListing(c)
  \/ ClearDirectoryCache
  \/ \E d \in DaySteps : Tick(d)
SpecStore == InitReady /\ [][StoreNext]_vars

\* Home's searches: the root listings and the background processing of a worker that
\* is ready, the results shown by the page, and its cache.
AppendNext ==
  \/ RootListingNext
  \/ \E b \in Tasks, o \in LsOutcomes : BgProcess(b, o)
  \/ \E p \in Pages : GetItemListing(p, "bafyA", FALSE)
  \/ \E k \in Calls : PostToWorker(k)
  \/ \E m \in inbox : OnExtractPairs(m)
  \/ \E p \in Pages, t \in Tasks, stored \in BOOLEAN : HandleMessage(p, t, stored)
  \/ \E k \in Calls : HomeShow(k)
  \/ ClearDirectoryCache
SpecAppend == InitReady /\ [][AppendNext]_vars

\* The same, with the CID of the page changed while its results are shown.
CidChangeNext ==
  \/ AppendNext
  \/ \E p \in Pages, c \in Cids : SetCid(p, c)
SpecCidChange == InitReady /\ [][CidChangeNext]_vars

\* The message listener of a worker that is ready, with every type of message, from
\* pages and from senders that are no clients.
ListenerNext ==
  \/ \E s \in Sources : PostShallowRetrieval(s, "bafyA")
  \/ \E s \in Sources, files \in PairFiles : PostExtractPairs(s, files)
  \/ \E s \in Sources, ty \in OtherTypes : PostOther(s, ty)
  \/ RootListingNext
  \/ \E m \in inbox : OnExtractPairs(m)
  \/ \E m \in inbox, open \in SUBSET Windows : OnClaimClients(m, open)
  \/ \E m \in inbox : OnUnknown(m)
SpecListener == InitReady /\ [][ListenerNext]_vars

\* The directory cache and the file cache in one storage.
ClearNext ==
  \/ \E c \in Cids, stored \in BOOLEAN : SetCachedDirectoryListing(c, <<>>, stored)
  \/ \E c \in Cids : GetCachedDirectoryListing(c)
  \/ \E c \in Cids : SetCachedFile(c)
  \/ ClearDirectoryCache
SpecClear == InitReady /\ [][ClearNext]_vars

\* The messages between the pages' ServiceWorkerManager and a worker that is ready.
MessagesNext ==
  \/ RootListingNext
  \/ \E p \in Pages, c \in Cids : GetItemListing(p, c, FALSE)
  \/ \E k \in Calls : PostToWorker(k)
  \/ \E k \in Calls : PostMessageThrows(k)
  \/ \E m \in inbox : OnExtractPairs(m)
  \/ \E p \in Pages, t \in Tasks, stored \in BOOLEAN : HandleMessage(p, t, stored)
  \/ \E k \in Calls : MessageTimeout(k)
SpecMessages == InitReady /\ [][MessagesNext]_vars

\* The same, with a second page that sends requests to the worker.
TwoPagesNext ==
  \/ RootListingNext
  \/ \E p \in Pages : GetItemListing(p, "bafyA", FALSE)
  \/ \E k \in Calls : PostToWorker(k)
  \/ \E k \in Calls : PostMessageThrows(k)
  \/ \E m \in inbox : OnExtractPairs(m)
  \/ \E p \in Pages, t \in Tasks, stored \in BOOLEAN : HandleMessage(p, t, stored)
  \/ \E k \in Calls : MessageTimeout(k)
  \/ \E s \in {OtherPage, NoSource} : PostFromOtherPage(s)
SpecTwoPages == InitReady /\ [][TwoPagesNext]_vars

\* The pages' listings served by a worker whose construction can fail, with CIDs that
\* do not parse and directory listings that end in an error.
FailureNext ==
  \/ HandleNext
  \/ RootListingNext
  \/ \E b \in Tasks, o \in LsOutcomes : BgProcess(b, o)
  \/ \E p \in Pages, c \in Cids : GetItemListing(p, c, FALSE)
  \/ \E k \in Calls : PostToWorker(k)
  \/ \E p \in Pages, t \in Tasks, stored \in BOOLEAN : HandleMessage(p, t, stored)
SpecFailure == Init /\ [][FailureNext]_vars

\* The listing cache of the pages of a worker that is ready.
CacheNext == RootListingNext \/ PageNext
SpecCache == InitReady /\ [][CacheNext]_vars

\* The pages' listings served by the worker, in runs in which the construction does not
\* fail and the subdirectory listings do not end.
ListingNext == ConstructNext \/ RootListingNext \/ PageNext
SpecPage == Init /\ [][ListingNext]_vars

\* ================================================= the handle (SpecHandle)
Settled(t) == acq[t].st \in {"ok", "err"}
Outcome(t) == [st |-> acq[t].st, h |-> acq[t].h, err |-> acq[t].err]
CreateRunning == {n \in Inits : doInit[n].create = "running"}

\* C1: the initHelia() calls made while one doInitialization call is in flight start no
\* other call, and all of them settle with the same outcome: the same handle, or a
\* rejection with the same error.
C1_CallersShareOutcome ==
  \A t1, t2 \in 1..nTasks :
    (acq[t1].during # 0 /\ acq[t1].during = acq[t2].during)
      => /\ acq[t1].role = "initiator" => acq[t1].init = acq[t1].during
         /\ (Settled(t1) /\ Settled(t2)) => Outcome(t1) = Outcome(t2)

\* C2 as stated: at most one createHeliaHTTP call that has not settled, at any moment.
C2_OneCreateRunning == Cardinality(CreateRunning) <= 1

\* C2, amended: at most one doInitialization call is awaited at any moment, it is the
\* one initializationPromise names, and at most one unsettled createHeliaHTTP call is
\* still raced against its timer; calls abandoned by a timeout may run beside it.
C2_OneAwaitedAttempt ==
  /\ Cardinality({n \in Inits : Pending(n)}) <= 1
  /\ \A n \in Inits : Pending(n) => n = nInits /\ isInitializing /\ initializationPromise = n
  /\ Cardinality({n \in CreateRunning : doInit[n].pc = "race"}) <= 1

\* A retry races its createHeliaHTTP call while the call a timeout abandoned still runs.
C2_Witness ==
  \E n, m \in CreateRunning : doInit[n].cause = "timeout" /\ doInit[m].pc = "race"

\* C3: every initHelia() call that returns successfully yields a handle whose helia, fs
\* and verifiedFetch are all set.
C3_HandleComplete ==
  \A t \in 1..nTasks :
    acq[t].st = "ok" =>
      acq[t].h.helia # 0 /\ acq[t].h.fs # 0 /\ acq[t].h.verifiedFetch # 0

\* The latest doInitialization call has failed and its initiator has resumed.
FailedClean(n) == n = nInits /\ Rejected(n) /\ doInit[n].resumed

\* C4, the state after a failure: helia, fs and verifiedFetch are null from the moment
\* the call throws, the flag and the promise once initHelia's catch has run; and every
\* caller that awaited the call has got, or is about to get, the rejection with its error.
C4_ResetAndRejected ==
  /\ \A n \in Inits : (Rejected(n) /\ n = nInits) =>
        helia = 0 /\ fs = 0 /\ verifiedFetch = 0
  /\ \A n \in Inits : FailedClean(n) => ~isInitializing /\ initializationPromise = 0
  /\ \A t \in 1..nTasks :
        (acq[t].role \in {"initiator", "waiter"} /\ Rejected(acq[t].init)) =>
           \/ acq[t].st = "wait" /\ MicrotaskQueued
           \/ acq[t].st = "err" /\ acq[t].err = InitError(acq[t].init)

\* C4, the next call: an initHelia() call made in that state starts a new
\* doInitialization call from its first step and awaits it.
C4_FreshStart ==
  \A n \in Inits : \A t \in Tasks :
    (FailedClean(n) /\ acq[t].role = "none" /\ acq'[t].role # "none") =>
       /\ nInits' = n + 1
       /\ doInit'[n + 1] = [IdleInit EXCEPT !.pc = "open"]
       /\ isInitializing' /\ initializationPromise' = n + 1
       /\ acq'[t].role = "initiator" /\ acq'[t].init = n + 1 /\ acq'[t].st = "wait"

\* C4: after any failure of doInitialization all references are reset, every waiter
\* gets the rejection, and the next initHelia() starts a fresh attempt.
C4_FailureResets == []C4_ResetAndRejected /\ [][C4_FreshStart]_vars

\* A waiter got the rejection of one call, and a later caller started the next one.
C4_Witness ==
  \E t1, t2 \in 1..nTasks :
    /\ acq[t1].role = "waiter" /\ acq[t1].st = "err"
    /\ acq[t2].role = "initiator" /\ acq[t2].init = acq[t1].init + 1

\* C5: once a doInitialization call has returned, the client stays the one it made, no
\* other call is started, and every later initHelia() returns that client at once.
C5_ConstructedOnce ==
  /\ \A n \in Inits : Fulfilled(n) =>
        n = nInits /\ helia = n /\ fs = n /\ verifiedFetch = n
  /\ \A t \in 1..nTasks :
        acq[t].afterOk =>
           acq[t].role = "fast" /\ acq[t].st = "ok" /\ acq[t].h.helia = helia

\* Two content fetches called initHelia() after the construction had succeeded.
C5_Witness ==
  \E t1, t2 \in 1..nTasks : t1 # t2 /\ acq[t1].afterOk /\ acq[t2].afterOk

\* ---- the bounded wait
\* doInitialization call n lost the race to its 8 s timer.
TimedOutInit(n) == Rejected(n) /\ doInit[n].cause = "timeout"

\* The callers of initHelia() that awaited call n.
Awaiting(n) == {t \in 1..nTasks : acq[t].role \in {"initiator", "waiter"} /\ acq[t].init = n}

\* C24, the callers: every initHelia() call made while a call that then timed out was
\* in flight awaited that call, and gets (or, its continuation queued, is about to get)
\* the construction error of that call and no handle.
C24_WaitersFail ==
  \A n \in Inits : TimedOutInit(n) =>
    \A t \in 1..nTasks : (acq[t].during = n \/ acq[t].init = n) =>
       /\ t \in Awaiting(n)
       /\ acq[t].h = NoHandle
       /\ \/ acq[t].st = "wait" /\ MicrotaskQueued
          \/ acq[t].st = "err" /\ acq[t].err = [init |-> n, cause |-> "timeout"]

\* C24, the handle: the references are null when the timer wins; whatever they hold
\* later was put there by a call that did not time out, and a handle a caller got
\* comes from such a call.
C24_StaysUnconstructed ==
  /\ \A n \in Inits : (TimedOutInit(n) /\ n = nInits) =>
        helia = 0 /\ fs = 0 /\ verifiedFetch = 0
  /\ \A n \in Inits : TimedOutInit(n) => helia # n /\ fs # n /\ verifiedFetch # n
  /\ \A t \in 1..nTasks : \A n \in Inits :
        TimedOutInit(n) => acq[t].h.helia # n /\ acq[t].h.fs # n /\ acq[t].h.verifiedFetch # n

\* C24, the abandoned attempt: when the createHeliaHTTP call of a timed-out call settles
\* later, the references, the flag, the promise and every caller stay as they are.
C24_LateSuccessWasted ==
  \A n \in Inits :
    (TimedOutInit(n) /\ doInit[n].create = "running" /\ doInit'[n].create # "running") =>
       /\ UNCHANGED <<helia, fs, verifiedFetch, isInitializing, initializationPromise, acq>>
       /\ doInit'[n].pc = "threw" /\ doInit'[n].cause = "timeout"

\* C24, the next caller: an initHelia() call made after the timeout, the abandoned
\* attempt having succeeded or not, returns at once only with a handle a later call has
\* built; otherwise it awaits, or starts, a later doInitialization call.
C24_NextCallerWaitsForNew ==
  \A n \in Inits : \A t \in Tasks :
    (TimedOutInit(n) /\ acq[t].role = "none" /\ acq'[t].role # "none") =>
       IF acq'[t].role = "fast"
       THEN acq'[t].h.helia > n /\ acq'[t].h.fs > n
       ELSE /\ acq'[t].st = "wait" /\ acq'[t].init > n
            /\ doInit'[acq'[t].init].pc \in {"open", "race", "vfetch"}

\* C24: when the 8 s timer wins, every waiting caller gets the construction error, the
\* handle stays unconstructed, and a later success of the abandoned createHeliaHTTP call
\* neither populates the handle nor spares the next caller a new construction.
C24_TimeoutAbandons ==
  /\ [](C24_WaitersFail /\ C24_StaysUnconstructed)
  /\ [][C24_LateSuccessWasted /\ C24_NextCallerWaitsForNew]_vars

\* A call timed out with an initiator and a waiter, both got the error, its
\* createHeliaHTTP call succeeded afterwards, and a later caller started the next call.
C24_Witness ==
  \E n \in Inits : \E t1, t2, t3 \in 1..nTasks :
    /\ TimedOutInit(n) /\ doInit[n].create = "resolved"
    /\ acq[t1].role = "initiator" /\ acq[t1].init = n /\ acq[t1].st = "err"
    /\ acq[t2].role = "waiter" /\ acq[t2].init = n /\ acq[t2].st = "err"
    /\ acq[t3].role = "initiator" /\ acq[t3].init = n + 1


\* ============================================ request interception (SpecFetch)
FetchTasks == {t \in 1..nTasks : task[t].kind = "fetch"}

\* The pathname has "/ipfs-sw/" and no CID segment after it.
NoCidSegment(segs) ==
  /\ \E i \in 2..(Len(segs) - 1) : segs[i] = "ipfs-sw"
  /\ \A i \in 2..(Len(segs) - 1) : segs[i] = "ipfs-sw" => segs[i + 1] = ""

\* The pathname has a CID segment after "/ipfs-sw/", and it is no parseable CID.
UnparseableCidSegment(segs) ==
  \E i \in 2..(Len(segs) - 1) :
    /\ segs[i] = "ipfs-sw" /\ segs[i + 1] # "" /\ ~CidParses(segs[i + 1])
    /\ \A k \in 2..(i - 1) : segs[k] = "ipfs-sw" => segs[k + 1] = ""

\* The request is answered 400 and neither initHelia nor verifiedFetch was called for it.
Answered400Untouched(t) ==
  /\ resp[t].st = "sent" /\ resp[t].status = BadRequestStatus
  /\ acq[t] = NoAcq /\ ~resp[t].vfCalled

\* C9: an intercepted request for /ipfs-sw/ with no CID segment is answered 400, and
\* neither initHelia nor verifiedFetch is called for it.
C9_NoCidIs400 ==
  \A t \in FetchTasks :
    (task[t].url.inScope /\ NoCidSegment(task[t].url.segs)) => Answered400Untouched(t)

\* /ipfs-sw/ has been requested and answered while the handle was being constructed or
\* was constructed.
C9_Witness ==
  \E t \in FetchTasks :
    /\ task[t].url = [inScope |-> TRUE, segs |-> <<"", "ipfs-sw", "">>, filename |-> "", size |-> <<>>]
    /\ resp[t].status = BadRequestStatus
    /\ helia # 0

\* C10: an intercepted request whose CID segment is no parseable CID is answered 400,
\* and neither initHelia nor verifiedFetch is called for it.
C10_UnparseableIs400 ==
  \A t \in FetchTasks :
    (task[t].url.inScope /\ UnparseableCidSegment(task[t].url.segs)) =>
       /\ acq[t] = NoAcq /\ ~resp[t].vfCalled
       /\ resp[t].st = "sent" => resp[t].status = BadRequestStatus


\* The request is intercepted and passes the listener's checks of its pathname.
Served(t) == Intercepted(task[t].url) /\ ~Malformed(task[t].url)

\* The failure of serving request t, <<>> while there is none: the rejection of
\* initHelia(), the call of a verifiedFetch that is null, the rejection of verifiedFetch.
Failure(t) ==
  IF task[t].pc = "acquire" THEN <<>>
  ELSE IF acq[t].st = "err" THEN Message(acq[t].err)
  ELSE IF acq[t].st = "ok" /\ acq[t].h.verifiedFetch = 0 THEN NotAFunction
  ELSE resp[t].thrown

\* C11: every failure of serving an intercepted, well-formed request (the construction
\* of the handle failed or timed out, verifiedFetch rejected) is answered with status
\* 500 and a body that carries the failure's message; the promise given to respondWith
\* never rejects, and the handler never ends without a response.
C11_FailureIs500 ==
  \A t \in FetchTasks :
    Served(t) =>
      /\ task[t].pc \in {"acquire", "vf", "done"}
      /\ task[t].pc = "done" <=> resp[t].st = "sent"
      /\ resp[t].thrown = Failure(t)
      /\ Failure(t) # <<>> =>
            /\ resp[t].st = "sent" /\ resp[t].status = ServerErrorStatus
            /\ resp[t].body = <<"Error">> \o Failure(t)

\* One request was answered 500 after a construction that timed out, another after a
\* rejection of verifiedFetch.
C11_Witness ==
  \E t1, t2 \in FetchTasks :
    /\ Served(t1) /\ acq[t1].st = "err" /\ acq[t1].err.cause = "timeout"
    /\ resp[t1].status = ServerErrorStatus
    /\ Served(t2) /\ resp[t2].thrown = VerifiedFetchError
    /\ resp[t2].status = ServerErrorStatus

\* ================================================= content type (SpecServe)
\* The type the extension table gives for a file name: the table's entry for the
\* name's extension in lower case, application/octet-stream when the table has none
\* and when there is no file name.
TypeByExtension(filename) ==
  IF filename = <<>> THEN OctetStream
  ELSE LET ext == ToLowerCase(Pop(filename)) IN
         IF ext \in DOMAIN mimeTypes THEN mimeTypes[ext] ELSE OctetStream

\* C12: the Content-Type of every served response is the extension table's type for the
\* file name (the path after the CID if there is one, otherwise the `filename`
\* parameter), and application/octet-stream when the extension is not in the table or
\* no file name is given.
C12_ContentTypeByExtension ==
  \A t \in FetchTasks :
    (Served(t) /\ resp[t].st = "sent" /\ resp[t].thrown = <<>>) =>
       resp[t].contentType = TypeByExtension(Filename(task[t].url))

\* ======================================== background processing (SpecWalk)
BgTasks == {b \in 1..nTasks : task[b].kind = "bg"}

\* The positions in the traversal's log of the outcome events of kind ty for a path.
OutcomeEvents(b, ty, path) ==
  {k \in 1..Len(posted[task[b].parent]) :
     LET m == posted[task[b].parent][k] IN
       /\ m.type = "SW_PROGRESS_UPDATE"
       /\ m.data.type = ty
       /\ m.data.subdirectory = path}
Found(b, i) == Cardinality(OutcomeEvents(b, "SUBDIRECTORY_FILES_FOUND", walk[b].subdirs[i]))
Errors(b, i) == Cardinality(OutcomeEvents(b, "SUBDIRECTORY_ERROR", walk[b].subdirs[i]))
AllOutcomeEvents(b) ==
  {k \in 1..Len(posted[task[b].parent]) :
     /\ posted[task[b].parent][k].type = "SW_PROGRESS_UPDATE"
     /\ posted[task[b].parent][k].data.type \in
           {"SUBDIRECTORY_FILES_FOUND", "SUBDIRECTORY_ERROR"}}

\* At most N outcome events for N subdirectories, and no path in two of them.
AtMostOncePerPath(b) ==
  /\ Cardinality(AllOutcomeEvents(b)) <= Len(walk[b].subdirs)
  /\ \A i \in 1..Len(walk[b].subdirs) : Found(b, i) + Errors(b, i) <= 1

Failed(b, i) == i <= Len(walk[b].outcomes) /\ ~walk[b].outcomes[i].ok

\* The loop has not ended before the last subdirectory.
LoopGoesOn(b) ==
  /\ task[b].pc = "loop" =>
       walk[b].sidx = Len(walk[b].outcomes) + 1 /\ walk[b].sidx <= Len(walk[b].subdirs)
  /\ task[b].pc = "done" => Len(walk[b].outcomes) = Len(walk[b].subdirs)

IsGet == nCalls' = nCalls + 1

\* The age of a record now, in days
Age(record) == now - record.timestamp

\* What getItemListing's read does to the record for the CID it is called with: a record
\* younger than the retention window is returned and the storage stays as it is; an
\* older one is removed, nothing else is, and the read misses; so does a read of no
\* record.
C17_GetStep ==
  IsGet =>
    LET k == nCalls'
        c == call'[k].cid
        record == localStorage[c]
    IN
    IF record.present /\ Age(record) < RetentionDays
    THEN /\ call'[k].hit /\ call'[k].files = record.files
         /\ localStorage' = localStorage
    ELSE /\ ~call'[k].hit /\ call'[k].files = <<>>
         /\ localStorage' = [localStorage EXCEPT ![c] = NoRecord]

\* C17: get(cid) returns the stored entries of a record younger than the 30-day
\* retention window and leaves the storage unchanged; a stale record is removed and
\* reported absent; no other record is touched.
C17_GetReturnsFreshRemovesStale == [][C17_GetStep]_vars

\* A call has just read a record that an earlier call stored 30 days before: it misses
\* and the record is gone.
C17_Witness ==
  \E k \in 1..nCalls :
    /\ call[k].pc = "controller" /\ call[k].sent = <<>>
    /\ call[k].prior.st = "stored" /\ call[k].at - call[k].prior.at >= RetentionDays
    /\ ~call[k].hit /\ ~localStorage[call[k].cid].present


\* ================================================ cache round trip (SpecStore)
\* The entries as the caller of get reads them: a key that is not there reads undefined.
Read(file, key) == IF key = "size" /\ file[key] = Absent THEN Undefined ELSE file[key]

\* The documented coercion: a bigint size as the string of its digits
Coerced(file) ==
  [key \in DOMAIN file |->
     IF key = "size" /\ file[key].kind = "bigint"
     THEN [kind |-> "string", v |-> file[key].v] ELSE file[key]]

\* C18 as stated: a get(c) made within the retention window of the last put(c, entries),
\* with no removal in between, returns the entries written, bigint sizes as strings.
C18_GetAfterPut(c) ==
  (listed[c].st # "no" /\ now - listed[c].at < RetentionDays) =>
    /\ returned'.hit
    /\ returned'.files = [i \in 1..Len(listed[c].files) |-> Coerced(listed[c].files[i])]
C18_GetAfterStoredPut(c) ==
  (listed[c].st = "stored" /\ now - listed[c].at < RetentionDays) =>
    /\ returned'.hit
    /\ Len(returned'.files) = Len(listed[c].files)
    /\ \A i \in 1..Len(listed[c].files) : \A key \in DOMAIN listed[c].files[i] :
         Read(returned'.files[i], key) = Read(Coerced(listed[c].files[i]), key)
RECURSIVE DiscoveredUpTo(_, _)
DiscoveredUpTo(t, n) ==
  IF n = 0 THEN <<>>
  ELSE DiscoveredUpTo(t, n - 1) \o
       (IF /\ posted[t][n].type = "SW_PROGRESS_UPDATE"
           /\ posted[t][n].data.type = "SUBDIRECTORY_FILES_FOUND"
        THEN posted[t][n].data.files ELSE <<>>)
Discovered(t) == DiscoveredUpTo(t, Len(posted[t]))

\* Page p handles a SUBDIRECTORY_FILES_FOUND event of the traversal t of a CID: with a
\* record for that CID in the cache, a write that succeeds leaves the record with the
\* files it had and the new ones after them; with no record, the cache stays as it is.
C19_AppendStep ==
  \A p \in Pages, t \in Tasks, stored \in BOOLEAN :
    (/\ HandleMessage(p, t, stored)
     /\ posted[t][cursor[p][t] + 1].type = "SW_PROGRESS_UPDATE"
     /\ posted[t][cursor[p][t] + 1].data.type = "SUBDIRECTORY_FILES_FOUND") =>
      LET c == task[t].cid
          newEntries == posted[t][cursor[p][t] + 1].data.files
      IN IF localStorage[c].present
         THEN stored =>
                /\ localStorage'[c].present
                /\ localStorage'[c].files = localStorage[c].files \o Stored(newEntries)
         ELSE localStorage' = localStorage

\* The background processing of traversal t has ended and the page that requested it
\* has handled all its messages.
AllHandled(t) ==
  /\ task[t].kind = "shallow" /\ task[t].src \in Pages
  /\ \E b \in BgTasks : task[b].parent = t /\ task[b].pc = "done"
  /\ cursor[task[t].src][t] = Len(posted[t])

\* Then the record of the root CID, written last without a failure and not removed
\* since, has the root entries and the discovered ones.
C19_RecordComplete ==
  \A t \in 1..nTasks :
    (AllHandled(t) /\ listed[task[t].cid].st = "stored") =>
      /\ localStorage[task[t].cid].present
      /\ localStorage[task[t].cid].files = Stored(walk[t].files \o Discovered(t))

\* C19: appending discovered entries merges them into the record that exists for the
\* CID and never creates one; once the background processing of a traversal has
\* delivered its discoveries, the record has the root entries and the discovered ones.
C19_AppendMergesNeverCreates == []C19_RecordComplete /\ [][C19_AppendStep]_vars


\* ================================================ responses (SpecListener)
\* The activations of the listener for a request with an id, and for a control message.
Requests == {t \in 1..nTasks : task[t].kind \in {"shallow", "pairs", "unknown"}}
Controls == {t \in 1..nTasks : task[t].kind = "claim"}

\* The responses in the log of activation t, and the postMessage calls made for one.
Responses(t) == {k \in 1..Len(posted[t]) : posted[t][k].type # "SW_PROGRESS_UPDATE"}
Copies(m) == IF m.to = "all" THEN Cardinality(m.known) ELSE 1

\* The response of request t is the one the listener's switch and catch prescribe.
WellFormed(t, m) ==
  /\ m.id = task[t].id
  /\ m.type = task[t].type \o "_RESPONSE"
  /\ m.success <=> (task[t].kind # "unknown" /\ walk[t].error = <<>>)
  /\ m.success => m.error = <<>>
  /\ ~m.success => m.error # <<>> /\ m.data = <<>>
  /\ task[t].kind = "shallow" /\ m.success => m.data = walk[t].files
  /\ task[t].kind = "unknown" => m.error = <<"Unknown message type", task[t].type>>

\* C22 as stated: a request has at most one response, and exactly one once the listener
\* is through with it, well formed and posted once; CLAIM_CLIENTS has none.
C22_ExactlyOneResponse ==
  /\ \A t \in Requests :
       /\ Cardinality(Responses(t)) <= 1
       /\ task[t].pc = "done" => Cardinality(Responses(t)) = 1
       /\ \A k \in Responses(t) : WellFormed(t, posted[t][k]) /\ Copies(posted[t][k]) = 1
  /\ \A t \in Controls : posted[t] = <<>>

\* C22, amended: the one response is posted once to the source of the request; for a
\* request without a source it is posted to each window the worker controls then.
C22_OneResponseToSourceOrAll ==
  /\ \A t \in Requests :
       /\ Cardinality(Responses(t)) <= 1
       /\ task[t].pc = "done" => Cardinality(Responses(t)) = 1
       /\ \A k \in Responses(t) :
            /\ WellFormed(t, posted[t][k])
            /\ task[t].src # NoSource => posted[t][k].to = task[t].src
            /\ task[t].src = NoSource =>
                 posted[t][k].to = "all" /\ Copies(posted[t][k]) = Cardinality(posted[t][k].known)
  /\ \A t \in Controls : posted[t] = <<>>

\* A listing has been answered with success, a message of an unknown type with a
\* failure, and a CLAIM_CLIENTS message has been handled.
C22_Witness ==
  /\ \E t \in Requests : task[t].kind = "shallow" /\ task[t].pc = "done"
                          /\ \E k \in Responses(t) : posted[t][k].success
  /\ \E t \in Requests : task[t].kind = "unknown" /\ Responses(t) # {}
  /\ Controls # {}


\* ======================================== background failures (SpecWalk)
\* C23: the failures of the background processing do not reach the caller that awaits
\* the listing: whatever the subdirectory listings do, the response of a traversal whose
\* root listing succeeded is its one success response with the root files, and a failure
\* is in the log only as the SUBDIRECTORY_ERROR event of its subdirectory.
C23_BackgroundErrorsStayInEvents ==
  \A b \in BgTasks :
    LET t == task[b].parent IN
    /\ Cardinality(Responses(t)) <= 1
    /\ task[t].pc = "done" => Cardinality(Responses(t)) = 1
    /\ \A k \in Responses(t) :
         /\ posted[t][k].success /\ posted[t][k].error = <<>>
         /\ posted[t][k].data = walk[t].files
    /\ \A k \in 1..Len(posted[t]) :
         (posted[t][k].type = "SW_PROGRESS_UPDATE" /\ posted[t][k].data.error # <<>>) =>
           /\ posted[t][k].data.type = "SUBDIRECTORY_ERROR"
           /\ \E i \in 1..Len(walk[b].outcomes) :
                /\ Failed(b, i) /\ walk[b].subdirs[i] = posted[t][k].data.subdirectory
                /\ walk[b].outcomes[i].msg = posted[t][k].data.error

\* Every one of two subdirectory listings has failed, and the request has its success
\* response.
C23_Witness ==
  \E b \in BgTasks :
    /\ task[b].pc = "done" /\ Len(walk[b].outcomes) = 2
    /\ \A i \in 1..Len(walk[b].outcomes) : Failed(b, i)
    /\ task[b].src # NoSource
    /\ \E k \in Responses(task[b].parent) : posted[task[b].parent][k].success


\* ================================================ clearing the cache (SpecClear)
\* C21: clearDirectoryCache removes every record under the cache prefix, returns their
\* number and leaves the keys outside the prefix as they are; after it a get is absent
\* for every CID.
C21_ClearStep ==
  ClearDirectoryCache =>
    /\ \A c \in Cids : ~localStorage'[c].present /\ ~(getCachedDirectoryListing(c).hit)'
    /\ returned'.cleared = Cardinality({c \in Cids : localStorage[c].present})
    /\ foreign' = foreign
C21_ClearRemovesAllUnderPrefix == [][C21_ClearStep]_vars

\* Two records have been cleared and the records of the file cache are still there.
C21_Witness ==
  /\ returned.cleared = Cardinality(Cids)
  /\ foreign = {Key(fileCachePrefix, c) : c \in Cids}
  /\ \A c \in Cids : ~localStorage[c].present


\* ================================================ cache eviction (SpecStore)
\* C20: clearOldCacheEntries, run when a cache write fails, removes only stale records:
\* a record that get would return before the failed write is still there, unchanged,
\* after it.
C20_FailedWriteStep ==
  \A c \in Cids, files \in StoreFiles :
    SetCachedDirectoryListing(c, files, FALSE) =>
      \A x \in Cids :
        getCachedDirectoryListing(x).hit => localStorage'[x] = localStorage[x]
C20_EvictsOnlyStale == [][C20_FailedWriteStep]_vars


\* ============================================== progress fan-out (SpecFanout)
\* The progress events the worker has posted, as (traversal, position in its log).
ProgressEvents ==
  {e \in Tasks \X (1..(3 + 2 * MaxEntries)) :
     /\ e[2] <= Len(posted[e[1]])
     /\ posted[e[1]][e[2]].type = "SW_PROGRESS_UPDATE"}

\* C15: every progress event is posted to every page the worker knows when the event is
\* produced, whichever page requested the traversal; so a page that connected during a
\* traversal gets every event produced after that.
C15_DeliveredToAllPages ==
  \A e \in ProgressEvents :
    LET m == posted[e[1]][e[2]] IN
      \A w \in m.known : m.to \in {w, "all"}

\* ========================================= progress subscribers (SpecProgress)
\* C16: every progress event that arrives at a page is given to every subscriber
\* registered then, the onProgress of each pending request and each persistent
\* callback, also when one of them throws.
C16_EverySubscriberReceives ==
  \A p \in Pages : undelivered[p] = {}

\* ============================================ message correlation (SpecMessages)
\* The message of call k timed out.
TimedOut(k) ==
  call[k].pc = "failed" /\ call[k].error # <<>> /\ call[k].error[1] = "Message timeout"

\* The response to the message with that id of page p has arrived and has been handled.
ResponseHandled(p, id) ==
  \E t \in 1..nTasks :
    /\ task[t].src = p /\ task[t].id = id /\ task[t].pc = "done"
    /\ cursor[p][t] = Len(posted[t])

\* C13: when the timer of a message fires before its response has arrived, the call is
\* rejected with an error that names the type of the request, and from then on the
\* table of pending messages has no entry with the id of that request.
C13_TimeoutRejectsAndForgets ==
  \A k \in 1..nCalls :
    TimedOut(k) =>
      /\ call[k].sent # <<>>
      /\ call[k].error = <<"Message timeout", call[k].sent[Len(call[k].sent)]>>
      /\ call[k].id = call[k].ids[Len(call[k].ids)]
      /\ \A q \in pendingMessages[call[k].page] : q.id # call[k].id

\* A SHALLOW_RETRIEVAL message timed out, and its response arrived afterwards.
C13_Witness ==
  \E k \in 1..nCalls :
    /\ TimedOut(k) /\ call[k].error[2] = "SHALLOW_RETRIEVAL"
    /\ ResponseHandled(call[k].page, call[k].id)

\* No id is used by two requests of one page.
UniqueIds ==
  \A k1, k2 \in 1..nCalls :
    call[k1].page = call[k2].page =>
      \A i1 \in 1..Len(call[k1].ids), i2 \in 1..Len(call[k2].ids) :
        call[k1].ids[i1] = call[k2].ids[i2] => (k1 = k2 /\ i1 = i2)

\* Page p handles the next message of traversal t's log: a response whose id is that of
\* a pending request settles the call that sent it and removes that entry alone; any
\* other message leaves the table and every call as they are (but for the record of
\* the onProgress calls).
SettlesItsRequest(p, t) ==
  LET m == posted[t][cursor'[p][t]]
      match == {q \in pendingMessages[p] : q.id = m.id}
  IN IF m.type # "SW_PROGRESS_UPDATE" /\ match # {}
     THEN \E q \in match :
            /\ pendingMessages' = [pendingMessages EXCEPT ![p] = @ \ {q}]
            /\ call[q.call].pc = "pending" /\ call[q.call].id = m.id
            /\ call'[q.call].pc # "pending"
            /\ \A j \in Calls : j # q.call => call'[j] = call[j]
     ELSE /\ pendingMessages' = pendingMessages
          /\ \A j \in Calls : [call'[j] EXCEPT !.progress = <<>>] =
                                [call[j] EXCEPT !.progress = <<>>]

C14_ResponseStep ==
  \A p \in Pages, t \in Tasks :
    cursor'[p][t] = cursor[p][t] + 1 => SettlesItsRequest(p, t)

\* C14: within one page no two requests carry the same id; a response settles the
\* pending request with its id and removes only that entry; a response whose id
\* matches no pending request is dropped and changes neither the table nor any request.
C14_Correlation == []UniqueIds /\ [][C14_ResponseStep]_vars

\* The response to a request that had timed out was dropped while another request of
\* the page was pending.
C14_Witness ==
  \E k1, k2 \in 1..nCalls :
    /\ call[k1].page = call[k2].page
    /\ TimedOut(k1) /\ ResponseHandled(call[k1].page, call[k1].id)
    /\ call[k2].pc = "pending"
    /\ \E q \in pendingMessages[call[k2].page] : q.id = call[k2].id

\* ============================================ message timeouts (SpecMessages)
\* The timer of call k's message fires in this step.
TimesOut(k) == call[k].pc = "pending" /\ TimedOut(k)'

\* C25, the timer: the step in which the timer of a message fires rejects the call
\* that sent it and removes its entry; the worker's activations, their listings, the
\* messages they have posted and the messages on the way to the worker are as before,
\* every other call is as before, and every other entry is still in the table.
C25_TimeoutStep ==
  \A k \in Calls :
    TimesOut(k) =>
      /\ call'[k].error = <<"Message timeout", call[k].next>>
      /\ UNCHANGED <<swVars, nTasks, task, acq, walk, posted, resp, inbox, cursor,
                     localStorage, results>>
      /\ \A j \in Calls : j # k => call'[j] = call[j]
      /\ \A p \in Pages :
            pendingMessages'[p] =
              {q \in pendingMessages[p] : ~(p = call[k].page /\ q.id = call[k].id)}

\* C25, the late response: when the response to a message that timed out arrives at
\* its page, the table, every call, the cache and the results stay as they are.
C25_LateResponseStep ==
  \A p \in Pages, t \in Tasks :
    (/\ cursor'[p][t] = cursor[p][t] + 1
     /\ posted[t][cursor'[p][t]].type # "SW_PROGRESS_UPDATE"
     /\ task[t].src = p
     /\ \E k \in 1..nCalls :
           call[k].page = p /\ TimedOut(k) /\ call[k].id = posted[t][cursor'[p][t]].id) =>
       UNCHANGED <<pendingMessages, call, localStorage, listed, results, swVars, task,
                   walk, posted, inbox>>

\* C25: a message timeout rejects that call alone, leaves the worker's work and the
\* other pending requests as they are, and the response that arrives later for the
\* timed-out id is dropped without settling anything.
C25_TimeoutIsLocal == [][C25_TimeoutStep /\ C25_LateResponseStep]_vars

\* A request timed out, the worker went on to answer it, the answer was dropped at the
\* page, and another request of the page got its listing and its pairs.
C25_Witness ==
  \E k1, k2 \in 1..nCalls :
    /\ k1 # k2 /\ call[k1].page = call[k2].page
    /\ TimedOut(k1) /\ ResponseHandled(call[k1].page, call[k1].id)
    /\ call[k2].pc = "done" /\ Len(call[k2].ids) = 2

\* ======================================= background completion (SpecWalkLive)
\* processSubdirectoriesInBackground has been called for activation b.
BgStarted(b) == b <= nTasks /\ task[b].kind = "bg"

\* Its loop has reached the end of the list, one attempt made for every task.
BgCompleted(b) ==
  /\ BgStarted(b) /\ task[b].pc = "done"
  /\ Len(walk[b].outcomes) = Len(walk[b].subdirs)

\* C26: background subdirectory processing, once started, eventually reaches the end
\* of its task list having attempted every task, every listing terminating.
C26_RunsToCompletion == \A b \in Tasks : BgStarted(b) ~> BgCompleted(b)

\* The same from the first turn of the loop on, that is once the `await initHelia()` at
\* the head of the function has resolved.
C26_LoopRunsToCompletion ==
  \A b \in Tasks : (BgStarted(b) /\ task[b].pc = "loop") ~> BgCompleted(b)

\* A background run whose initHelia() was rejected: no task was attempted.
C26_Aborted ==
  \E b \in 1..nTasks :
    /\ BgStarted(b) /\ task[b].pc = "aborted"
    /\ walk[b].subdirs # <<>> /\ walk[b].outcomes = <<>>

\* ================================================ served headers (SpecHeaders)
\* The content responses served: the Response of verifiedFetch passed on.
ServedOk ==
  {t \in FetchTasks : resp[t].st = "sent" /\ resp[t].vfCalled /\ resp[t].thrown = <<>>}

\* The headers the listener sets whatever the request, with their values
FixedHeaders ==
  ("Cache-Control" :> "public, max-age=86400") @@
  ("Access-Control-Allow-Origin" :> "*") @@ ("Accept-Ranges" :> "bytes")

\* url.searchParams.has('size')
SizeSupplied(t) == task[t].url.size # <<>>

\* The status and the status text are those of the Response of verifiedFetch.
C27_StatusPassedThrough ==
  \A t \in ServedOk :
    /\ resp[t].status = resp[t].upstream.status
    /\ resp[t].statusText = resp[t].upstream.statusText

\* The three fixed headers have their values, whatever verifiedFetch had set, and the
\* headers the listener does not set are those of verifiedFetch.
C27_FixedHeadersOverride ==
  \A t \in ServedOk :
    /\ \A n \in DOMAIN FixedHeaders :
          n \in DOMAIN resp[t].headers /\ resp[t].headers[n] = FixedHeaders[n]
    /\ \A n \in DOMAIN resp[t].upstream.headers :
          n \notin (DOMAIN FixedHeaders \cup {"Content-Type", "Content-Length"}) =>
            n \in DOMAIN resp[t].headers /\ resp[t].headers[n] = resp[t].upstream.headers[n]

\* Content-Type is the extension table's type for the file name.
C27_ContentTypeFromTable ==
  \A t \in ServedOk :
    /\ "Content-Type" \in DOMAIN resp[t].headers
    /\ resp[t].headers["Content-Type"] = TypeByExtension(Filename(task[t].url))

\* Content-Length of response t is the parsed `size` parameter
LengthFromSize(t) ==
  /\ "Content-Length" \in DOMAIN resp[t].headers
  /\ resp[t].headers["Content-Length"] = ParseIntToString(task[t].url.size[1])

\* Content-Length of response t is as verifiedFetch left it
LengthFromUpstream(t) ==
  IF "Content-Length" \in DOMAIN resp[t].upstream.headers
  THEN /\ "Content-Length" \in DOMAIN resp[t].headers
       /\ resp[t].headers["Content-Length"] = resp[t].upstream.headers["Content-Length"]
  ELSE "Content-Length" \notin DOMAIN resp[t].headers

\* Content-Length is set by the listener exactly when the request has a `size`
\* parameter; otherwise it is as verifiedFetch left it.
C27_ContentLengthWhenSize ==
  \A t \in ServedOk : IF SizeSupplied(t) THEN LengthFromSize(t) ELSE LengthFromUpstream(t)

\* What the listener does: it sets Content-Length when the parameter is not empty.
C27_ContentLengthWhenSizeNotEmpty ==
  \A t \in ServedOk :
    IF SizeSupplied(t) /\ task[t].url.size # <<"">>
    THEN LengthFromSize(t) ELSE LengthFromUpstream(t)

\* C27: every content response served has the status and the status text of the
\* verified fetch, Content-Type from the MIME table, the three fixed headers with their
\* values over whatever the verified fetch had set, and Content-Length set exactly
\* when the request has a `size` parameter.
C27_ServedHeaders ==
  /\ C27_StatusPassedThrough
  /\ C27_FixedHeadersOverride
  /\ C27_ContentTypeFromTable
  /\ C27_ContentLengthWhenSize

\* ========================================== listing events (SpecLongListing)
\* The shallow listings that have a progress sink.
WithSink == {t \in 1..nTasks : task[t].kind = "shallow" /\ task[t].src # NoSource}

IsListingEvent(m) ==
  m.type = "SW_PROGRESS_UPDATE" /\ m.data.type = "DIRECTORY_LISTING_PROGRESS"

\* The shallow-listing events of traversal t, in the order in which they were posted.
ListingEvents(t) == SelectSeq(posted[t], IsListingEvent)

\* The i-th entry number that has a `listing` event: 1..10, then 50, 100, ...
ReportedNumber(i) == IF i <= 10 THEN i ELSE 50 * (i - 10)

\* The entry numbers up to n that have one.
ReportedUpTo(n) == {k \in 1..n : k <= 10 \/ k % 50 = 0}

Terminal(e) == e.data.stage \in {"complete", "error"}

\* The events after the first: listing events for the reported entry numbers, in
\* order and none missing, then at most one terminal event, which is there once the
\* listing has ended; `complete` has the length of the list returned, `error` the message.
BodyAndTerminal(t) ==
  LET E == ListingEvents(t)
      ended == task[t].pc \in {"respond", "done"}
      nl == Cardinality(ReportedUpTo(walk[t].count))
  IN /\ Len(E) = 1 + nl + (IF ended THEN 1 ELSE 0)
     /\ \A i \in 1..nl :
           /\ E[1 + i].data.stage = "listing"
           /\ E[1 + i].data.entriesFound = ReportedNumber(i)
     /\ ended =>
           LET e == E[Len(E)] IN
             IF walk[t].error = <<>>
             THEN e.data.stage = "complete" /\ e.data.entriesFound = Len(walk[t].files)
             ELSE e.data.stage = "error" /\ e.data.error = walk[t].error

\* The listing of t failed before it began: initHelia() was rejected, or the CID did
\* not parse.
FailedBeforeListing(t) ==
  /\ task[t].pc \in {"respond", "done"} /\ walk[t].error # <<>>
  /\ walk[t].error # <<"ls failed">>

\* C28 as stated: the events of a shallow listing with a sink are one `starting`, the
\* `listing` events of entries 1..10 and of every multiple of 50, and one terminal
\* `complete` or `error`, nothing after; no terminal event without a `starting`.
C28_StartingListingTerminal ==
  \A t \in WithSink :
    LET E == ListingEvents(t) IN
      E # <<>> => (E[1].data.stage = "starting" /\ BodyAndTerminal(t))

\* C28, amended: as above for a listing that begins; a listing that fails before it
\* begins has the `error` event alone, with the message of the failure.
C28_StartingUnlessFailedBefore ==
  \A t \in WithSink :
    LET E == ListingEvents(t) IN
      /\ (task[t].pc = "acquire") = (E = <<>>)
      /\ E # <<>> =>
           IF FailedBeforeListing(t)
           THEN /\ Len(E) = 1 /\ walk[t].count = 0
                /\ E[1].data.stage = "error" /\ E[1].data.error = walk[t].error
           ELSE E[1].data.stage = "starting" /\ BodyAndTerminal(t)

\* A listing of more than 100 entries has completed: `starting`, twelve `listing`
\* events, `complete`.
C28_Witness ==
  \E t \in WithSink :
    /\ task[t].pc = "done" /\ walk[t].error = <<>> /\ walk[t].count > 100
    /\ Len(ListingEvents(t)) = 14

\* ===================================== response before recursion (SpecWalkRespond)
\* The root directory of listing t is exhausted and its files are returned.
RootExhausted(t) ==
  t <= nTasks /\ task[t].kind = "shallow" /\ task[t].pc = "respond" /\ walk[t].error = <<>>

\* The success response with the root files has been posted for listing t.
RootResponded(t) ==
  /\ t <= nTasks /\ task[t].kind = "shallow" /\ task[t].pc = "done"
  /\ \E k \in 1..Len(posted[t]) :
        /\ posted[t][k].type = "SHALLOW_RETRIEVAL_RESPONSE"
        /\ posted[t][k].success /\ posted[t][k].data = walk[t].files

\* The background runs of listing t that have tasks left.
Unprocessed(t) ==
  {b \in 1..nTasks : /\ task[b].kind = "bg" /\ task[b].parent = t
                     /\ Len(walk[b].outcomes) < Len(walk[b].subdirs)}

\* C29: once the root directory is exhausted the response with the root list is sent,
\* whether or not the queued subdirectories are ever listed.
C29_RespondsWithoutWaiting == \A t \in Tasks : RootExhausted(t) ~> RootResponded(t)

\* The response has been sent and no queued subdirectory has been listed yet.
C29_Witness ==
  \E t \in 1..nTasks :
    /\ RootResponded(t)
    /\ \E b \in Unprocessed(t) : task[b].pc = "loop" /\ walk[b].outcomes = <<>>

\* ========================================== single-level recursion (SpecWalk)
IsDirectory(file) == file.type = "directory"

\* The names of the directory entries of a listing, in its order.
DirectoryNames(files) ==
  LET d == SelectSeq(files, IsDirectory) IN [i \in 1..Len(d) |-> d[i].name]

\* The background runs of traversal t.
RunsOf(t) == {b \in BgTasks : task[b].parent = t}

\* The directory listings performed so far for traversal t: the root's, and one for
\* each turn of the loop of its background run.
ListingsOf(t) ==
  1 + (IF RunsOf(t) = {} THEN 0 ELSE Len(walk[CHOOSE b \in RunsOf(t) : TRUE].outcomes))

\* The SUBDIRECTORY_FILES_FOUND events of traversal t.
FoundEvents(t) ==
  {k \in 1..Len(posted[t]) :
     /\ posted[t][k].type = "SW_PROGRESS_UPDATE"
     /\ posted[t][k].data.type = "SUBDIRECTORY_FILES_FOUND"}

\* C30: the task list of a background run is the list of the root's directory entries
\* and stays so; the entries found in a subdirectory are reported under the task's path,
\* directories among them too, and none of these is queued or listed; the listings of
\* one traversal are at most 1 + N for N root subdirectories.
C30_SingleLevel ==
  \A t \in 1..nTasks : task[t].kind = "shallow" =>
    /\ Cardinality(RunsOf(t)) <= 1
    /\ ListingsOf(t) <= 1 + Len(DirectoryNames(walk[t].files))
    /\ \A b \in RunsOf(t) :
          /\ walk[b].subdirs = DirectoryNames(walk[t].files)
          /\ Len(walk[b].outcomes) <= Len(walk[b].subdirs)
    /\ \A k \in FoundEvents(t) :
          LET d == posted[t][k].data IN
            \A j \in 1..Len(d.files) :
              /\ d.files[j].name = d.subdirectory \o <<j>>
              /\ \A b \in RunsOf(t) : \A i \in 1..Len(walk[b].subdirs) :
                    walk[b].subdirs[i] # d.files[j].name

\* A background run has listed every root subdirectory and ended, and a directory found
\* in one of them was reported and not listed.
C30_Witness ==
  \E t \in 1..nTasks : \E b \in RunsOf(t) :
    /\ task[b].pc = "done" /\ ListingsOf(t) = 1 + Len(walk[b].subdirs)
    /\ \E k \in FoundEvents(t) :
          \E j \in 1..Len(posted[t][k].data.files) :
            posted[t][k].data.files[j].type = "directory"

\* ================================================ settling once (SpecTwoPages)
\* The promises sendMessage has returned for call k: one for each id of the call.
Promises(k) == {call[k].ids[i] : i \in 1..Len(call[k].ids)}

\* The times the promise of call k's message id has been settled (resolve or reject
\* called for it).
TimesSettled(k, id) ==
  Cardinality({i \in 1..Len(call[k].settles) : call[k].settles[i][1] = id})

\* C31: the promise of every message is settled at most once, so never both resolved
\* and rejected; its entry is in the table of pending messages exactly as long as it
\* is not settled.
C31_SettledAtMostOnce ==
  \A k \in 1..nCalls :
    /\ \A i \in 1..Len(call[k].settles) : call[k].settles[i][1] \in Promises(k)
    /\ \A id \in Promises(k) :
          /\ TimesSettled(k, id) <= 1
          /\ (TimesSettled(k, id) = 0) =
               (\E q \in pendingMessages[call[k].page] : q.id = id /\ q.call = k)

\* The response to a page's listing request and the broadcast response to another
\* page's request with the same id have both been handled by the page.
C31_Witness ==
  \E k \in 1..nCalls : \E t1, t2 \in 1..nTasks :
    /\ t1 # t2 /\ Len(call[k].settles) >= 1
    /\ task[t1].id = call[k].settles[1][1] /\ task[t2].id = call[k].settles[1][1]
    /\ task[t1].type = "SHALLOW_RETRIEVAL" /\ FromOtherPage(task[t2])
    /\ cursor[call[k].page][t1] = Len(posted[t1]) /\ task[t1].pc = "done"
    /\ cursor[call[k].page][t2] = Len(posted[t2]) /\ task[t2].pc = "done"
    /\ task[t2].src = NoSource

\* ========================================= responses and pages (SpecTwoPages)
\* Page p handles the next message that traversal or request t has posted.
Handles(p, t) == t <= nTasks /\ cursor'[p][t] = cursor[p][t] + 1

\* C38: the response to a request settles no pending request of a page other than
\* the page that sent the request: when a page handles a message posted for a request
\* of another sender, its table of pending requests stays as it is.
C38_OnlyOwnResponses ==
  [][\A p \in Pages, t \in Tasks :
       Handles(p, t) /\ task[t].src # p => pendingMessages'[p] = pendingMessages[p]]_vars

\* ============================================= cache integrity (SpecCidChange)
\* The entries of the tree rooted at c that the traversals have listed: the root
\* entries and the entries found in the root's subdirectories.
RootEntriesOf(c) ==
  UNION {{walk[t].files[i] : i \in 1..Len(walk[t].files)} :
           t \in {u \in 1..nTasks : task[u].kind = "shallow" /\ task[u].cid = c}}
SubdirEntriesOf(c) ==
  UNION {UNION {LET f == SubdirFiles(walk[b].subdirs[i], walk[b].outcomes[i].types)
                IN {f[j] : j \in 1..Len(f)} : i \in 1..Len(walk[b].outcomes)} :
           b \in {u \in 1..nTasks : task[u].kind = "bg" /\ task[task[u].parent].cid = c}}
TreeOf(c) == RootEntriesOf(c) \cup SubdirEntriesOf(c)

\* C32: every cache record stored under a CID holds only entries (as they are stored)
\* of the tree rooted at that CID.
C32_RecordsHoldOwnTree ==
  \A c \in Cids :
    localStorage[c].present =>
      \A i \in 1..Len(localStorage[c].files) :
        \E e \in TreeOf(c) : localStorage[c].files[i] = Stored(<<e>>)[1]

\* ================================================ Content-Length (SpecHeaders)
\* The decimal digits of the body lengths of the responses.
Decimal(n) == CASE n = 0 -> "0" [] n = 5 -> "5" [] n = 1024 -> "1024"

\* The responses sent that carry a Content-Length header.
WithContentLength ==
  {t \in 1..nTasks : resp[t].st = "sent" /\ "Content-Length" \in DOMAIN resp[t].headers}

\* C33: the Content-Length header of every response served is the number of bytes of
\* its body.
C33_LengthIsBodyBytes ==
  \A t \in WithContentLength : resp[t].headers["Content-Length"] = Decimal(resp[t].bytes)

\* The same for the requests whose `size` parameter is the size of the file.
C33_LengthIsBodyBytesForTrueSize ==
  \A t \in WithContentLength :
    task[t].url.size = <<"1024">> =>
      resp[t].headers["Content-Length"] = Decimal(resp[t].bytes)

\* ... and for those that are answered with the whole file.
C33_LengthIsBodyBytesWhenWhole ==
  \A t \in WithContentLength :
    task[t].url.size \in {<<>>, <<"1024">>} /\ resp[t].status = 200 =>
      resp[t].headers["Content-Length"] = Decimal(resp[t].bytes)

\* ============================================ the relay of events (SpecProgress)
\* The last call of the onProgress of getItemListing call k, with the message it is made
\* for.
Relayed(k) == {i \in 1..Len(call[k].progress) : call[k].progress[i].relayed # <<>>}
Emitted(k, i) == posted[call[k].progress[i].from[1]][call[k].progress[i].from[2]].data

\* C34: a listing event that reaches the onProgress of a getItemListing call has
\* the stage and the entriesFound of the event that the worker emitted.
C34_RelayKeepsStageAndCount ==
  \A k \in 1..nCalls : \A i \in Relayed(k) :
    /\ call[k].progress[i].relayed[1].stage = <<Emitted(k, i).stage>>
    /\ call[k].progress[i].relayed[1].entriesFound = <<Emitted(k, i).entriesFound>>

\* ===================================== progress and requests (SpecProgress)
\* The traversal whose message the last call of the onProgress of call k is made for.
TraversalOf(k, i) == task[call[k].progress[i].from[1]]

\* C35: the onProgress of a pending request is called only for the progress events of
\* the traversal that the request started.
C35_OnlyOwnTraversal ==
  \A k \in 1..nCalls : \A i \in 1..Len(call[k].progress) :
    /\ TraversalOf(k, i).src = call[k].page
    /\ TraversalOf(k, i).id \in Promises(k)

\* =========================================== complete comes first (SpecWalk)
\* The subdirectory events and the 'complete' events of the log of traversal t.
SubdirectoryEvents(t) ==
  {j \in 1..Len(posted[t]) :
     /\ posted[t][j].type = "SW_PROGRESS_UPDATE"
     /\ posted[t][j].data.type \in {"SUBDIRECTORY_FILES_FOUND", "SUBDIRECTORY_ERROR"}}
CompleteEvents(t) ==
  {j \in 1..Len(posted[t]) :
     /\ posted[t][j].type = "SW_PROGRESS_UPDATE"
     /\ posted[t][j].data.type = "DIRECTORY_LISTING_PROGRESS"
     /\ posted[t][j].data.stage = "complete"}

\* C36: in the messages of one traversal, the 'complete' event of the root listing
\* comes before every SUBDIRECTORY_FILES_FOUND and SUBDIRECTORY_ERROR event.
C36_CompleteBeforeSubdirectories ==
  \A t \in 1..nTasks : \A j \in SubdirectoryEvents(t) : \E i \in CompleteEvents(t) : i < j

\* A traversal has reported files found in one subdirectory and the failure of another.
C36_Witness ==
  \E t \in 1..nTasks : \E j, k \in SubdirectoryEvents(t) :
    /\ posted[t][j].data.type = "SUBDIRECTORY_FILES_FOUND"
    /\ posted[t][k].data.type = "SUBDIRECTORY_ERROR"
    /\ CompleteEvents(t) # {}

\* ============================================ failed listings (SpecFailure)
\* The shallow listings that have failed: performShallowRetrieval has thrown.
FailedListings == {t \in 1..nTasks : task[t].kind = "shallow" /\ walk[t].error # <<>>}

\* A failed listing has started no background processing and emitted no subdirectory
\* event, and the response it gets is a failure response.
C37_NothingStarted ==
  \A t \in FailedListings :
    /\ \A b \in 1..nTasks : ~(task[b].kind = "bg" /\ task[b].parent = t)
    /\ SubdirectoryEvents(t) = {}
    /\ \A j \in Responses(t) : ~posted[t][j].success /\ posted[t][j].data = <<>>
    /\ task[t].pc = "done" => Responses(t) # {}

\* The page that handles the response of a failed listing writes nothing to the cache.
C37_NothingCached ==
  \A p \in Pages : \A t \in FailedListings :
    Handles(p, t) => localStorage' = localStorage

\* C37: a shallow listing that fails leaves no partial effect: the request gets a
\* failure response, no background processing is started, no subdirectory event is
\* emitted, and the page writes no cache record.
C37_FailureLeavesNothing == []C37_NothingStarted /\ [][C37_NothingCached]_vars

\* The page has handled the failure response of a listing that failed in the middle of
\* the root directory, with a subdirectory already queued.
C37_Witness ==
  \E t \in FailedListings : \E p \in Pages :
    /\ walk[t].subdirs # <<>> /\ task[t].pc = "done"
    /\ cursor[p][t] = Len(posted[t])
    /\ \E k \in 1..nCalls : call[k].pc = "failed" /\ call[k].settles = <<<<task[t].id, "reject">>>>

====
